---- MODULE Spec2Model ----
(***************************************************************************)
(* A model of orca_core/core.py: the OrcaHand controller.                  *)
(*                                                                         *)
(* Python dicts whose iteration order decides behaviour (the configuration *)
(* maps, a joint_pos argument) are sequences of <<key, value>> pairs with  *)
(* distinct keys, in insertion order.  The calibration tables, which the   *)
(* code only looks up or scans for a None, are functions on their keys.    *)
(* An optional number (a limit that may be None) is <<>> or <<x>>.         *)
(***************************************************************************)
EXTENDS Integers, Sequences, FiniteSets, TLC

VARIABLES
    config,                 \* config.yaml as read at line 30
    calib_file,             \* calibration.yaml: a function on the keys it holds
    hand,                   \* "new", "constructed" or "failed" (__init__ raised)
    init_error,             \* what __init__ raised, "" when nothing
    calibrated,             \* self.calibrated
    motor_limits,           \* self.motor_limits
    joint_to_motor_ratios,  \* self.joint_to_motor_ratios
    ret_is_calibrated,      \* the value of the last is_calibrated() call, <<>> before
    cal,                    \* the locals of the calibrate() call in progress
    mech,                   \* per motor: "stall" (blocked at its end stops) or "free"
    passes,                 \* the calibrate() calls begun so far
    dxl_client,             \* self._dxl_client: None or Some(index into clients)
    motor_lock,             \* self._motor_lock: the RLock's owner and recursion count
    clients,                \* the DynamixelClient objects made so far: connected or not
    present_position,       \* the motors' positions, aligned to motor_ids
    connect_succeeded,      \* some connect() has returned (True, ...)
    pc,                     \* per thread: where it stands in its operation
    op,                     \* per thread: the public operation it runs or ran last
    arg,                    \* per thread: that operation's argument
    motor_pos,              \* per thread: the local motor_pos of set_joint_pos, <<>> outside it
    calls,                  \* per thread: the transport calls of that operation
    result                  \* per thread: how that operation ended

calib_vars == <<cal, mech, passes>>
hand_vars == <<config, calib_file, hand, init_error, calibrated, motor_limits,
               joint_to_motor_ratios, ret_is_calibrated, calib_vars>>
transport_vars == <<dxl_client, motor_lock, clients, present_position, connect_succeeded>>
thread_vars == <<pc, op, arg, motor_pos, calls, result>>
vars == <<hand_vars, transport_vars, thread_vars>>

-----------------------------------------------------------------------------
(* Python values *)

None == <<>>
Some(x) == <<x>>
IsNone(o) == o = <<>>
Val(o) == o[1]

Range(s) == {s[i] : i \in DOMAIN s}

\* dict as a sequence of <<key, value>> pairs
Keys(d) == {d[i][1] : i \in DOMAIN d}
Values(d) == {d[i][2] : i \in DOMAIN d}
Get(d, k) == d[CHOOSE i \in DOMAIN d : d[i][1] = k][2]

\* dict.get(key, default) on a function
GetOr(f, k, default) == IF k \in DOMAIN f THEN f[k] ELSE default

EmptyTable == [m \in {} |-> <<>>]

-----------------------------------------------------------------------------
(* Persistent storage: utils/yaml_utils.py *)

\* read_yaml(path): the key-value mapping the file holds
read_yaml(file) == file

\* update_yaml(path, key, value): single-key upsert, the other keys kept
update_yaml(file, key, value) ==
    [k \in DOMAIN file \cup {key} |-> IF k = key THEN value ELSE file[k]]

-----------------------------------------------------------------------------
(* Configuration and calibration-table predicates *)

\* any(limit is None for limit in motor_limit)
AnyNone(motor_limit) == \E i \in DOMAIN motor_limit : IsNone(motor_limit[i])

ControlModes ==
    {"current_position", "current_velocity", "position", "multi_turn_position",
     "current_based_position"}

\* The first error of the loop over joint_to_motor_map.items(), "" when none.
RECURSIVE MapLoop(_, _)
MapLoop(cfg, i) ==
    IF i > Len(cfg.joint_to_motor_map) THEN ""
    ELSE LET joint == cfg.joint_to_motor_map[i][1]
             motor_id == cfg.joint_to_motor_map[i][2]
         IN  IF joint \notin Range(cfg.joint_ids)
                 THEN "ValueError: Joint is not defined."
             ELSE IF joint \notin Keys(cfg.joint_roms)
                 THEN "ValueError: ROM for joint is not defined."
             ELSE IF motor_id \notin Range(cfg.motor_ids)
                 THEN "ValueError: Motor ID is not in the motor IDs list."
             ELSE MapLoop(cfg, i + 1)

\* The first error of the loop over joint_roms.items(), "" when none.
RECURSIVE RomLoop(_, _)
RomLoop(cfg, i) ==
    IF i > Len(cfg.joint_roms) THEN ""
    ELSE LET joint == cfg.joint_roms[i][1]
             rom == cfg.joint_roms[i][2]
         IN  IF rom[2] - rom[1] <= 0
                 THEN "ValueError: ROM for joint is not valid."
             ELSE IF joint \notin Range(cfg.joint_ids)
                 THEN "ValueError: Joint in ROMs is not defined."
             ELSE RomLoop(cfg, i + 1)

\* The first error of the loop over one step's joints, "" when none.
RECURSIVE StepLoop(_, _, _)
StepLoop(cfg, joints, i) ==
    IF i > Len(joints) THEN ""
    ELSE IF joints[i][1] \notin Range(cfg.joint_ids)
        THEN "ValueError: Joint is not defined."
    ELSE IF joints[i][2] \notin {"flex", "extend"}
        THEN "ValueError: Invalid direction for joint."
    ELSE StepLoop(cfg, joints, i + 1)

\* The first error of the loop over calib_sequence, "" when none.
RECURSIVE SequenceLoop(_, _)
SequenceLoop(cfg, s) ==
    IF s > Len(cfg.calib_sequence) THEN ""
    ELSE LET e == StepLoop(cfg, cfg.calib_sequence[s], 1)
         IN  IF e # "" THEN e ELSE SequenceLoop(cfg, s + 1)

\* What _sanity_check raises on the configuration, "" when it raises nothing.
sanity_error(cfg) ==
    IF Len(cfg.motor_ids) # Len(cfg.joint_ids)
        THEN "ValueError: Number of motor IDs and joints do not match."
    ELSE IF Len(cfg.motor_ids) # Len(cfg.joint_to_motor_map)
        THEN "ValueError: Number of motor IDs and joints do not match."
    ELSE IF cfg.control_mode \notin ControlModes
        THEN "ValueError: Invalid control mode."
    ELSE IF cfg.max_current < cfg.calib_current
        THEN "ValueError: Max current should be greater than the calibration current."
    ELSE IF MapLoop(cfg, 1) # "" THEN MapLoop(cfg, 1)
    ELSE IF RomLoop(cfg, 1) # "" THEN RomLoop(cfg, 1)
    ELSE SequenceLoop(cfg, 1)

\* The tail of _sanity_check: some motor_limits value holds a None.
SomeLimitIncomplete(limits) == \E m \in DOMAIN limits : AnyNone(limits[m])

\* is_calibrated(): False at the first motor_limits value holding a None.
is_calibrated(limits) == ~(\E m \in DOMAIN limits : AnyNone(limits[m]))

-----------------------------------------------------------------------------
(* Bounded inputs *)

MaxIds == 2

\* Identifiers the configurations are built from: MaxIds of each kind.
JointNames == <<"a", "b", "c", "d">>
MotorIdPool == 1..MaxIds
JointIdPool == {JointNames[i] : i \in 1..MaxIds}

\* Sequences over S of length 1..n
SeqsUpTo(S, n) == UNION {[1..k -> S] : k \in 1..n}

\* Lists of distinct identifiers from S, of length 1..n
IdLists(S, n) == {l \in SeqsUpTo(S, n) : \A i, j \in DOMAIN l : l[i] = l[j] => i = j}

\* Python dicts (distinct keys, any insertion order) from K to V, at most n items
DictsUpTo(K, V, n) ==
    {<<>>} \cup
    {d \in SeqsUpTo(K \X V, n) : \A i, j \in DOMAIN d : i # j => d[i][1] # d[j][1]}

GoodConfig ==
    [motor_ids |-> <<1, 2>>,
     joint_ids |-> <<"a", "b">>,
     joint_to_motor_map |-> << <<"a", 1>>, <<"b", 2>> >>,
     joint_roms |-> << <<"a", <<0, 2>> >>, <<"b", <<0, 1>> >> >>,
     calib_sequence |-> << << <<"a", "flex">>, <<"b", "flex">> >>,
                           << <<"a", "extend">>, <<"b", "extend">> >> >>,
     control_mode |-> "current_based_position",
     max_current |-> 300,
     calib_current |-> 200]

\* Configurations that differ from GoodConfig in the identifiers and the map.
IdConfigs ==
    {[GoodConfig EXCEPT !.motor_ids = ms, !.joint_ids = js, !.joint_to_motor_map = mp] :
        ms \in IdLists(MotorIdPool, MaxIds),
        js \in IdLists(JointIdPool, MaxIds),
        mp \in DictsUpTo(JointIdPool, MotorIdPool \cup {MaxIds + 1}, MaxIds)}

\* Configurations that differ from GoodConfig in one of the other fields.
OtherConfigs ==
    {[GoodConfig EXCEPT !.control_mode = "current_position"],
     [GoodConfig EXCEPT !.control_mode = "torque"],
     [GoodConfig EXCEPT !.max_current = 100],
     [GoodConfig EXCEPT !.max_current = 200],
     [GoodConfig EXCEPT !.joint_roms = << <<"a", <<0, 2>> >> >>],
     [GoodConfig EXCEPT !.joint_roms = << <<"a", <<0, 2>> >>, <<"b", <<1, 1>> >> >>],
     [GoodConfig EXCEPT !.joint_roms =
         << <<"a", <<0, 2>> >>, <<"b", <<0, 1>> >>, <<"c", <<0, 1>> >> >>],
     [GoodConfig EXCEPT !.calib_sequence = <<>>],
     [GoodConfig EXCEPT !.calib_sequence = << << <<"a", "flex">> >> >>],
     [GoodConfig EXCEPT !.calib_sequence = << << <<"c", "flex">> >> >>],
     [GoodConfig EXCEPT !.calib_sequence = << << <<"a", "up">> >> >>]}

\* A limit pair as calibration.yaml may hold it: [lo, hi], each a number or null.
LimitPairs == {<<None, None>>, <<Some(0), None>>, <<None, Some(2)>>, <<Some(0), Some(2)>>}

\* motor_limits tables: any subset of the motors, any limit pair for each.
LimitTables == UNION {[D -> LimitPairs] : D \in SUBSET MotorIdPool}

\* The ratio of a motor with limits [lo, hi] and a joint with ROM rom (line 296).
Ratio(limits, rom) == (Val(limits[2]) - Val(limits[1])) \div (rom[2] - rom[1])

\* The ratio table that belongs to a limits table under configuration cfg: an
\* entry for every motor with both limits, as the calibration passes write it.
RatiosOf(cfg, limits) ==
    LET both == {m \in DOMAIN limits : ~AnyNone(limits[m])}
        joint(m) == CHOOSE j \in Keys(cfg.joint_to_motor_map) :
                        Get(cfg.joint_to_motor_map, j) = m
    IN  [m \in {m \in both : m \in Values(cfg.joint_to_motor_map)} |->
            Ratio(limits[m], Get(cfg.joint_roms, joint(m)))]

\* calibration.yaml files: with or without each key.
CalibFiles(cfg) ==
    {[k \in {} |-> <<>>]} \cup
    {[calibrated |-> c] : c \in BOOLEAN} \cup
    {[motor_limits |-> l, joint_to_motor_ratios |-> RatiosOf(cfg, l)] : l \in LimitTables} \cup
    {[calibrated |-> c, motor_limits |-> l, joint_to_motor_ratios |-> RatiosOf(cfg, l)] :
        c \in BOOLEAN, l \in LimitTables}

FewTables ==
    {EmptyTable,
     [m \in {1, 2} |-> <<Some(0), Some(2)>>],
     [m \in {1, 2} |-> IF m = 1 THEN <<Some(0), Some(2)>> ELSE <<Some(0), None>>]}

FewFiles ==
    {[calibrated |-> c, motor_limits |-> l, joint_to_motor_ratios |-> EmptyTable] :
        c \in BOOLEAN, l \in FewTables}

-----------------------------------------------------------------------------
(* Construction: OrcaHand.__init__ and the operations that need no transport *)

\* __init__: read both files, take the fields with their defaults, _sanity_check.
Construct ==
    /\ hand = "new"
    /\ LET cfg == read_yaml(config)
           calib == read_yaml(calib_file)
           limits == GetOr(calib, "motor_limits", EmptyTable)
           err == sanity_error(cfg)
       IN  /\ init_error' = err
           /\ hand' = IF err = "" THEN "constructed" ELSE "failed"
           /\ motor_limits' = limits
           /\ joint_to_motor_ratios' = GetOr(calib, "joint_to_motor_ratios", EmptyTable)
           /\ IF err = "" /\ SomeLimitIncomplete(limits)
                 THEN /\ calibrated' = FALSE
                      /\ calib_file' = update_yaml(calib_file, "calibrated", FALSE)
                 ELSE /\ calibrated' = GetOr(calib, "calibrated", FALSE)
                      /\ UNCHANGED calib_file
    /\ UNCHANGED <<config, ret_is_calibrated, calib_vars, transport_vars, thread_vars>>

\* A call of is_calibrated() on the constructed hand.
IsCalibratedCall ==
    /\ hand = "constructed"
    /\ ret_is_calibrated' = Some(is_calibrated(motor_limits))
    /\ UNCHANGED <<config, calib_file, hand, init_error, calibrated, motor_limits,
                   joint_to_motor_ratios, calib_vars, transport_vars, thread_vars>>


-----------------------------------------------------------------------------
(* Threads, the motor lock and the transport *)

Threads == {"t1", "t2"}
NoThread == ""

MaxClients == 2

\* threading.RLock: free, or owned by one thread count times over
Free == [owner |-> NoThread, count |-> 0]

\* acquire() does not block t: the lock is free or t owns it already
CanAcquire(t) == motor_lock.count = 0 \/ motor_lock.owner = t

\* the lock after t entered n nested `with self._motor_lock` blocks
Acquire(t, n) == [owner |-> t, count |-> motor_lock.count + n]

\* the lock after its owner left n nested with blocks
Release(n) ==
    IF motor_lock.count - n = 0 THEN Free ELSE [motor_lock EXCEPT !.count = @ - n]

\* How an operation stands or ended.
Running == [kind |-> "running", exc |-> "", value |-> <<>>]
Returned(v) == [kind |-> "returned", exc |-> "", value |-> v]
Raised(e) == [kind |-> "raised", exc |-> e, value |-> <<>>]

\* A transport call as the log of its operation holds it: the function, its
\* argument, the client object it is made on (0 once it has ended), whether
\* that client was connected when the call was made, and how the call stands.
Pending(fn, a, c) ==
    [fn |-> fn, arg |-> a, client |-> c, connected |-> clients[c], status |-> "pending"]

\* The log once its pending call has ended with status s.
Left(log, s) == [log EXCEPT ![Len(log)] = [@ EXCEPT !.status = s, !.client = 0]]

\* t is inside a transport call: the last call of its log has not ended.
InTransport(t) == calls[t] # <<>> /\ calls[t][Len(calls[t])].status = "pending"

\* The client object the pending call of t was made on.
Client(t) == calls[t][Len(calls[t])].client

\* How a call on client c may end: a client that is not connected raises;
\* a connected one answers, or raises on a communication failure.
Outcomes(c) == IF clients[c] THEN {"ok", "raised"} ELSE {"raised"}

\* t, idle, starts the public operation name with argument a.
Start(t, name, a) ==
    /\ hand = "constructed"
    /\ pc[t] = "idle"
    /\ op' = [op EXCEPT ![t] = name]
    /\ arg' = [arg EXCEPT ![t] = a]

\* The operation of t goes on at label l.
Goto(t, l) ==
    /\ pc' = [pc EXCEPT ![t] = l]
    /\ result' = [result EXCEPT ![t] = Running]

\* The operation of t ends with r.
End(t, r) ==
    /\ pc' = [pc EXCEPT ![t] = "idle"]
    /\ result' = [result EXCEPT ![t] = r]

\* t enters the transport call fn(a) on the client self._dxl_client names; log
\* holds the calls its operation has made before.
Enter(t, log, fn, a) ==
    calls' = [calls EXCEPT ![t] = Append(log, Pending(fn, a, Val(dxl_client)))]

\* The pending transport call of t ends with status s.
Leave(t, s) == calls' = [calls EXCEPT ![t] = Left(@, s)]

\* LockedCall with the call made outside the with block: the lock is not taken.
UnlockedCall(t, fn, a, label) ==
    IF dxl_client = None
       THEN /\ End(t, Raised("AttributeError"))
            /\ calls' = [calls EXCEPT ![t] = <<>>]
            /\ UNCHANGED motor_lock
       ELSE /\ Goto(t, label)
            /\ Enter(t, <<>>, fn, a)
            /\ UNCHANGED motor_lock

\* `with self._motor_lock: self._dxl_client.fn(a)` as the first statement of
\* operation name: the lock is taken, the attribute looked up (on None this
\* raises AttributeError and the with block is left), the call entered.
LockedCall(t, fn, a, label) ==
    /\ CanAcquire(t)
    /\ IF dxl_client = None
          THEN /\ End(t, Raised("AttributeError"))
               /\ calls' = [calls EXCEPT ![t] = <<>>]
               /\ UNCHANGED motor_lock
          ELSE /\ Goto(t, label)
               /\ Enter(t, <<>>, fn, a)
               /\ motor_lock' = Acquire(t, 1)

\* The one transport call of an operation returns v or raises, and the with
\* block around it is left.
LockedReturn(t, label, v) ==
    /\ pc[t] = label
    /\ \E s \in Outcomes(Client(t)) :
          /\ Leave(t, s)
          /\ End(t, IF s = "ok" THEN Returned(v) ELSE Raised("TransportError"))
    /\ motor_lock' = Release(1)
    /\ UNCHANGED <<hand_vars, dxl_client, clients, present_position,
                   connect_succeeded, op, arg, motor_pos>>

Unchanged_by_call == <<hand_vars, dxl_client, clients, present_position,
                       connect_succeeded, motor_pos>>

-----------------------------------------------------------------------------
(* connect and disconnect *)

\* connect, line 72: a new DynamixelClient becomes self._dxl_client, or its
\* constructor raises.
ConnectNew(t) ==
    /\ Start(t, "connect", <<>>)
    /\ Len(clients) < MaxClients
    /\ calls' = [calls EXCEPT ![t] = <<>>]
    /\ \/ /\ clients' = Append(clients, FALSE)
          /\ dxl_client' = Some(Len(clients) + 1)
          /\ Goto(t, "connect_lock")
       \/ /\ UNCHANGED <<clients, dxl_client>>
          /\ Goto(t, "connect_except")
    /\ UNCHANGED <<hand_vars, motor_lock, present_position, connect_succeeded, motor_pos>>

\* connect, lines 73-74: take the lock and enter self._dxl_client.connect().
ConnectCall(t) ==
    /\ pc[t] = "connect_lock"
    /\ CanAcquire(t)
    /\ IF dxl_client = None
          THEN /\ Goto(t, "connect_except")
               /\ UNCHANGED <<calls, motor_lock>>
          ELSE /\ Goto(t, "connect_call")
               /\ Enter(t, calls[t], "connect", <<>>)
               /\ motor_lock' = Acquire(t, 1)
    /\ UNCHANGED <<Unchanged_by_call, op, arg>>

\* connect, lines 74-75: the transport connects and (True, ...) is returned, or
\* it raises and the with block is left for the except clause.
ConnectReturn(t) ==
    /\ pc[t] = "connect_call"
    /\ motor_lock' = Release(1)
    /\ \/ /\ Leave(t, "ok")
          /\ clients' = [clients EXCEPT ![Client(t)] = TRUE]
          /\ connect_succeeded' = TRUE
          /\ End(t, Returned(<<TRUE, "Connection successful">>))
       \/ /\ Leave(t, "raised")
          /\ UNCHANGED <<clients, connect_succeeded>>
          /\ Goto(t, "connect_except")
    /\ UNCHANGED <<hand_vars, dxl_client, present_position, op, arg, motor_pos>>

\* ConnectExcept without line 77: the handle is kept.
ConnectExceptKeepsHandle(t) ==
    /\ pc[t] = "connect_except"
    /\ End(t, Returned(<<FALSE, "Connection failed">>))
    /\ UNCHANGED <<hand_vars, transport_vars, op, arg, motor_pos, calls>>

\* connect, lines 76-78: the except clause drops the handle and returns
\* (False, ...).
ConnectExcept(t) ==
    /\ pc[t] = "connect_except"
    /\ dxl_client' = None
    /\ End(t, Returned(<<FALSE, "Connection failed">>))
    /\ UNCHANGED <<hand_vars, motor_lock, clients, present_position, connect_succeeded,
                   op, arg, motor_pos, calls>>

\* disconnect, lines 86-88 and 115-118: take the lock, then disable_torque
\* takes it again and enters set_torque_enabled(motor_ids, False).  An
\* AttributeError on a None handle is caught by the except clause of line 92.
DisconnectBegin(t) ==
    /\ Start(t, "disconnect", <<>>)
    /\ CanAcquire(t)
    /\ IF dxl_client = None
          THEN /\ End(t, Returned(<<FALSE, "Disconnection failed">>))
               /\ calls' = [calls EXCEPT ![t] = <<>>]
               /\ UNCHANGED motor_lock
          ELSE /\ Goto(t, "disconnect_torque")
               /\ Enter(t, <<>>, "set_torque_enabled", FALSE)
               /\ motor_lock' = Acquire(t, 2)
    /\ UNCHANGED Unchanged_by_call

\* disconnect, lines 88-89: disable_torque returns and the thread sleeps with
\* the lock held, or it raises: both with blocks are left and the except
\* clause returns (False, ...).
DisconnectTorqueReturn(t) ==
    /\ pc[t] = "disconnect_torque"
    /\ \E s \in Outcomes(Client(t)) :
          /\ Leave(t, s)
          /\ IF s = "ok"
                THEN /\ Goto(t, "disconnect_sleep")
                     /\ motor_lock' = Release(1)
                ELSE /\ End(t, Returned(<<FALSE, "Disconnection failed">>))
                     /\ motor_lock' = Release(2)
    /\ UNCHANGED <<Unchanged_by_call, op, arg>>

\* disconnect, line 90: after the sleep, enter self._dxl_client.disconnect().
DisconnectCall(t) ==
    /\ pc[t] = "disconnect_sleep"
    /\ IF dxl_client = None
          THEN /\ End(t, Returned(<<FALSE, "Disconnection failed">>))
               /\ motor_lock' = Release(1)
               /\ UNCHANGED calls
          ELSE /\ Goto(t, "disconnect_call")
               /\ Enter(t, calls[t], "disconnect", <<>>)
               /\ UNCHANGED motor_lock
    /\ UNCHANGED <<Unchanged_by_call, op, arg>>

\* disconnect, lines 90-93: the transport is released and (True, ...) is
\* returned, or it raises and the except clause returns (False, ...).
DisconnectReturn(t) ==
    /\ pc[t] = "disconnect_call"
    /\ motor_lock' = Release(1)
    /\ \/ /\ Leave(t, "ok")
          /\ clients' = [clients EXCEPT ![Client(t)] = FALSE]
          /\ End(t, Returned(<<TRUE, "Disconnected successfully">>))
       \/ /\ Leave(t, "raised")
          /\ UNCHANGED clients
          /\ End(t, Returned(<<FALSE, "Disconnection failed">>))
    /\ UNCHANGED <<hand_vars, dxl_client, present_position, connect_succeeded,
                   op, arg, motor_pos>>

-----------------------------------------------------------------------------
(* The one-call operations *)

\* enable_torque, lines 103-106
EnableTorqueCall(t, motor_ids) ==
    /\ Start(t, "enable_torque", motor_ids)
    /\ LockedCall(t, "set_torque_enabled", TRUE, "enable_torque")
    /\ UNCHANGED Unchanged_by_call

EnableTorqueReturn(t) == LockedReturn(t, "enable_torque", <<>>)

\* disable_torque, lines 115-118
DisableTorqueCall(t, motor_ids) ==
    /\ Start(t, "disable_torque", motor_ids)
    /\ LockedCall(t, "set_torque_enabled", FALSE, "disable_torque")
    /\ UNCHANGED Unchanged_by_call

DisableTorqueReturn(t) == LockedReturn(t, "disable_torque", <<>>)

\* set_max_current, lines 127-134: a list of the wrong length raises before
\* the lock is taken; a number is broadcast to every motor.
SetMaxCurrentCall(t, current) ==
    /\ Start(t, "set_max_current", current)
    /\ IF current.is_list /\ Len(current.value) # Len(config.motor_ids)
          THEN /\ End(t, Raised("ValueError: Number of currents do not match."))
               /\ calls' = [calls EXCEPT ![t] = <<>>]
               /\ UNCHANGED motor_lock
          ELSE LockedCall(t, "write_desired_current",
                          IF current.is_list THEN current.value
                          ELSE [i \in DOMAIN config.motor_ids |-> current.value[1]],
                          "set_max_current")
    /\ UNCHANGED Unchanged_by_call

SetMaxCurrentReturn(t) == LockedReturn(t, "set_max_current", <<>>)

\* set_control_mode, lines 150-156
mode_map ==
    [m \in {"current", "velocity", "position", "multi_turn_position",
            "current_based_position"} |->
        CASE m = "current" -> 0
          [] m = "velocity" -> 1
          [] m = "position" -> 3
          [] m = "multi_turn_position" -> 4
          [] m = "current_based_position" -> 5]

\* set_control_mode, lines 158-168: an unknown mode raises before the lock is
\* taken, an unknown motor identifier inside the with block.
SetControlModeCall(t, a) ==
    /\ Start(t, "set_control_mode", a)
    /\ IF a.mode \notin DOMAIN mode_map
          THEN /\ End(t, Raised("ValueError: Invalid control mode."))
               /\ calls' = [calls EXCEPT ![t] = <<>>]
               /\ UNCHANGED motor_lock
          ELSE IF /\ a.motor_ids # None
                  /\ ~(Range(Val(a.motor_ids)) \subseteq Range(config.motor_ids))
          THEN /\ CanAcquire(t)
               /\ End(t, Raised("ValueError: Invalid motor IDs."))
               /\ calls' = [calls EXCEPT ![t] = <<>>]
               /\ UNCHANGED motor_lock
          ELSE LockedCall(t, "set_operating_mode", mode_map[a.mode],
                          "set_control_mode")
    /\ UNCHANGED Unchanged_by_call

SetControlModeReturn(t) == LockedReturn(t, "set_control_mode", <<>>)

\* get_motor_pos, lines 177-179
GetMotorPosCall(t) ==
    /\ Start(t, "get_motor_pos", <<>>)
    /\ LockedCall(t, "read_pos_vel_cur", <<>>, "get_motor_pos")
    /\ UNCHANGED Unchanged_by_call

GetMotorPosReturn(t) == LockedReturn(t, "get_motor_pos", present_position)

\* get_motor_current, lines 182-183 (the currents themselves are not modelled)
GetMotorCurrentCall(t) ==
    /\ Start(t, "get_motor_current", <<>>)
    /\ LockedCall(t, "read_pos_vel_cur", <<>>, "get_motor_current")
    /\ UNCHANGED Unchanged_by_call

GetMotorCurrentReturn(t) == LockedReturn(t, "get_motor_current", <<>>)

\* get_motor_temp, lines 186-187 (the temperatures themselves are not modelled)
GetMotorTempCall(t) ==
    /\ Start(t, "get_motor_temp", <<>>)
    /\ LockedCall(t, "read_temperature", <<>>, "get_motor_temp")
    /\ UNCHANGED Unchanged_by_call

GetMotorTempReturn(t) == LockedReturn(t, "get_motor_temp", <<>>)

-----------------------------------------------------------------------------
(* set_joint_pos *)

\* A Python index i into a sequence of length n, as a TLA+ index; 0 when the
\* index is out of range.
PyIndex(n, i) ==
    IF 0 <= i /\ i < n THEN i + 1
    ELSE IF 0 - n <= i /\ i < 0 THEN n + i + 1
    ELSE 0

\* _joint_to_motor_pos, lines 427-436, from item i of joint_pos on: the
\* motor_pos vector it returns, or the exception it raises.
RECURSIVE joint_to_motor_loop(_, _, _)
joint_to_motor_loop(joint_pos, i, mp) ==
    IF i > Len(joint_pos) THEN [exc |-> "", motor_pos |-> mp]
    ELSE LET joint_name == joint_pos[i][1]
             pos == joint_pos[i][2]
         IN  IF joint_name \notin Keys(config.joint_to_motor_map)
                 THEN joint_to_motor_loop(joint_pos, i + 1, mp)
             ELSE LET motor_id == Get(config.joint_to_motor_map, joint_name)
                  IN  IF motor_id \notin DOMAIN motor_limits
                          THEN [exc |-> "KeyError", motor_pos |-> mp]
                      ELSE IF \/ IsNone(motor_limits[motor_id][1])
                              \/ IsNone(motor_limits[motor_id][2])
                          THEN [exc |-> "ValueError: Motor is not calibrated.",
                                motor_pos |-> mp]
                      ELSE IF \/ joint_name \notin Keys(config.joint_roms)
                              \/ motor_id \notin DOMAIN joint_to_motor_ratios
                          THEN [exc |-> "KeyError", motor_pos |-> mp]
                      ELSE IF PyIndex(Len(mp), motor_id - 1) = 0
                          THEN [exc |-> "IndexError", motor_pos |-> mp]
                      ELSE joint_to_motor_loop(joint_pos, i + 1,
                              [mp EXCEPT ![PyIndex(Len(mp), motor_id - 1)] =
                                  Val(motor_limits[motor_id][1])
                                  + (pos - Get(config.joint_roms, joint_name)[1])
                                    * joint_to_motor_ratios[motor_id]])

\* set_joint_pos, lines 206-208, into _joint_to_motor_pos, line 425:
\* get_motor_pos takes the lock and enters read_pos_vel_cur.
SetJointPosBegin(t, joint_pos) ==
    /\ Start(t, "set_joint_pos", joint_pos)
    /\ LockedCall(t, "read_pos_vel_cur", <<>>, "joint_to_motor_pos")
    /\ UNCHANGED Unchanged_by_call

\* _joint_to_motor_pos, lines 425-436: the read returns and the lock is
\* released; the mentioned joints are written over the vector read.  The
\* vector goes to _set_motor_pos, or an exception ends the operation.
JointToMotorPos(t) ==
    /\ pc[t] = "joint_to_motor_pos"
    /\ motor_lock' = Release(1)
    /\ \E s \in Outcomes(Client(t)) :
          /\ Leave(t, s)
          /\ IF s # "ok"
                THEN /\ End(t, Raised("TransportError"))
                     /\ UNCHANGED motor_pos
                ELSE LET r == joint_to_motor_loop(arg[t], 1, present_position)
                     IN  IF r.exc # ""
                             THEN /\ End(t, Raised(r.exc))
                                  /\ UNCHANGED motor_pos
                             ELSE /\ Goto(t, "set_motor_pos")
                                  /\ motor_pos' = [motor_pos EXCEPT ![t] = r.motor_pos]
    /\ UNCHANGED <<hand_vars, dxl_client, clients, present_position, connect_succeeded,
                   op, arg>>

\* _set_motor_pos, lines 378-379: take the lock; get_motor_pos takes it again
\* and enters read_pos_vel_cur.
SetMotorPosBegin(t) ==
    /\ pc[t] = "set_motor_pos"
    /\ CanAcquire(t)
    /\ IF dxl_client = None
          THEN /\ End(t, Raised("AttributeError"))
               /\ motor_pos' = [motor_pos EXCEPT ![t] = <<>>]
               /\ UNCHANGED <<calls, motor_lock>>
          ELSE /\ Goto(t, "set_motor_pos_read")
               /\ Enter(t, calls[t], "read_pos_vel_cur", <<>>)
               /\ motor_lock' = Acquire(t, 2)
               /\ UNCHANGED motor_pos
    /\ UNCHANGED <<hand_vars, dxl_client, clients, present_position, connect_succeeded,
                   op, arg>>

\* _set_motor_pos, lines 379-397, for an ndarray: current_pos is read (and
\* not used), the vector is copied and write_desired_pos is entered.
SetMotorPosWrite(t) ==
    /\ pc[t] = "set_motor_pos_read"
    /\ \E s \in Outcomes(Client(t)) :
          IF s # "ok"
             THEN /\ Leave(t, s)
                  /\ End(t, Raised("TransportError"))
                  /\ motor_lock' = Release(2)
                  /\ motor_pos' = [motor_pos EXCEPT ![t] = <<>>]
             ELSE IF dxl_client = None
             THEN /\ Leave(t, s)
                  /\ End(t, Raised("AttributeError"))
                  /\ motor_lock' = Release(2)
                  /\ motor_pos' = [motor_pos EXCEPT ![t] = <<>>]
             ELSE /\ Goto(t, "set_motor_pos_write")
                  /\ Enter(t, Left(calls[t], s), "write_desired_pos", motor_pos[t])
                  /\ motor_lock' = Release(1)
                  /\ UNCHANGED motor_pos
    /\ UNCHANGED <<hand_vars, dxl_client, clients, present_position, connect_succeeded,
                   op, arg>>

\* The end stops of a motor that stalls.
StopLo == 0
StopHi == 2

\* Where the motors stand after the positions cmd were commanded: a free motor
\* at the commanded position, a stalling one at most at its end stop.
Moved(cmd) ==
    [i \in DOMAIN cmd |->
        IF mech[i] = "stall"
           THEN (IF cmd[i] < StopLo THEN StopLo ELSE IF cmd[i] > StopHi THEN StopHi ELSE cmd[i])
           ELSE cmd[i]]

\* _set_motor_pos, line 397: write_desired_pos returns, the motors take the
\* commanded positions and the with block is left; or it raises.
SetMotorPosReturn(t) ==
    /\ pc[t] = "set_motor_pos_write"
    /\ motor_lock' = Release(1)
    /\ \E s \in Outcomes(Client(t)) :
          /\ Leave(t, s)
          /\ IF s = "ok"
                THEN /\ present_position' = Moved(calls[t][Len(calls[t])].arg)
                     /\ End(t, Returned(<<>>))
                ELSE /\ UNCHANGED present_position
                     /\ End(t, Raised("TransportError"))
    /\ motor_pos' = [motor_pos EXCEPT ![t] = <<>>]
    /\ UNCHANGED <<hand_vars, dxl_client, clients, connect_succeeded, op, arg>>

-----------------------------------------------------------------------------
(* Numbers: positions and limits are whole multiples of one unit; a joint    *)
(* position, the result of a float division, is a fraction num/den (den 0:   *)
(* inf, -inf or nan, what numpy yields on division by 0.0).                  *)

Abs(x) == IF x < 0 THEN 0 - x ELSE x

RECURSIVE GCD(_, _)
GCD(a, b) == IF b = 0 THEN a ELSE GCD(b, a % b)

\* a / b as numpy computes it on float64
Quot(a, b) ==
    IF b = 0 THEN [num |-> IF a > 0 THEN 1 ELSE IF a < 0 THEN 0 - 1 ELSE 0, den |-> 0]
    ELSE LET g == GCD(Abs(a), Abs(b))
             s == IF b < 0 THEN 0 - 1 ELSE 1
         IN  [num |-> (s * a) \div g, den |-> (s * b) \div g]

\* x + q for a whole x
Plus(x, q) == IF q.den = 0 THEN q ELSE [num |-> x * q.den + q.num, den |-> q.den]

\* the float of a whole number
Whole(x) == [num |-> x, den |-> 1]

RECURSIVE Sum(_)
Sum(s) == IF s = <<>> THEN 0 ELSE Head(s) + Sum(Tail(s))

\* np.mean of a buffer (the buffers of this model have whole means)
mean(buffer) == Sum(buffer) \div Len(buffer)

\* np.allclose(buffer, b, atol=atol): every |x - b| <= atol + rtol * |b|, with
\* numpy's default rtol of 1e-5
RtolInverse == 100000
allclose(buffer, b, atol) ==
    \A i \in DOMAIN buffer :
        \/ Abs(buffer[i] - b) <= atol
        \/ (Abs(buffer[i] - b) - atol) * RtolInverse <= Abs(b)

-----------------------------------------------------------------------------
(* get_joint_pos *)

\* The key None of a dict whose other keys are joint names.
NoneKey == "None"

\* self.motor_to_joint_map.get(motor_id): the map of line 51 keeps, for a
\* motor of several joints, the joint that comes last.
motor_to_joint_map(motor_id) ==
    LET map == config.joint_to_motor_map
        at == {i \in DOMAIN map : map[i][2] = motor_id}
    IN  IF at = {} THEN NoneKey
        ELSE map[CHOOSE i \in at : \A j \in at : j <= i][1]

\* d[k] = v on a dict
DictSet(d, k, v) ==
    IF k \in Keys(d)
       THEN [i \in DOMAIN d |-> IF d[i][1] = k THEN <<k, v>> ELSE d[i]]
       ELSE Append(d, <<k, v>>)

\* _motor_to_joint_pos, lines 409-416, from index i of motor_pos on: the dict
\* it returns or the exception it raises.
RECURSIVE motor_to_joint_loop(_, _, _)
motor_to_joint_loop(mp, i, joint_pos) ==
    IF i > Len(mp) THEN [exc |-> "", joint_pos |-> joint_pos]
    ELSE LET motor_id == i
             pos == mp[i]
             joint_name == motor_to_joint_map(motor_id)
         IN  IF motor_id \notin DOMAIN motor_limits
                 THEN [exc |-> "KeyError", joint_pos |-> joint_pos]
             ELSE IF AnyNone(motor_limits[motor_id])
                 THEN motor_to_joint_loop(mp, i + 1, DictSet(joint_pos, joint_name, None))
             ELSE IF \/ joint_name \notin Keys(config.joint_roms)
                     \/ motor_id \notin DOMAIN joint_to_motor_ratios
                 THEN [exc |-> "KeyError", joint_pos |-> joint_pos]
             ELSE motor_to_joint_loop(mp, i + 1,
                     DictSet(joint_pos, joint_name,
                         Some(Plus(Get(config.joint_roms, joint_name)[1],
                                   Quot(pos - Val(motor_limits[motor_id][1]),
                                        joint_to_motor_ratios[motor_id])))))

MotorToJointPos(mp) == motor_to_joint_loop(mp, 1, <<>>)

-----------------------------------------------------------------------------
(* Operations of one caller, each step with the transport calls it makes *)

\* A transport call that has ended with status s.
Done(fn, a, s) ==
    [fn |-> fn, arg |-> a, client |-> 0, connected |-> clients[Val(dxl_client)],
     status |-> s]

\* Which of the next n transport calls raises: 0 for none.  A client that is
\* not connected raises at once.
Fails(n) == IF dxl_client = None THEN {0}
            ELSE IF clients[Val(dxl_client)] THEN 0..n ELSE {1}

\* The log of the calls cs, made in turn until the k-th of them raises.
Logged(cs, k) ==
    [i \in 1..(IF k = 0 \/ k > Len(cs) THEN Len(cs) ELSE k) |->
        Done(cs[i].fn, cs[i].arg, IF i = k THEN "raised" ELSE "ok")]

ReadPos == [fn |-> "read_pos_vel_cur", arg |-> <<>>]

\* get_joint_pos, lines 195-197
GetJointPos(t) ==
    /\ Start(t, "get_joint_pos", <<>>)
    /\ CanAcquire(t)
    /\ IF dxl_client = None
          THEN /\ End(t, Raised("AttributeError"))
               /\ calls' = [calls EXCEPT ![t] = <<>>]
          ELSE \E k \in Fails(1) :
                  /\ calls' = [calls EXCEPT ![t] = Logged(<<ReadPos>>, k)]
                  /\ IF k = 1 THEN End(t, Raised("TransportError"))
                     ELSE LET r == MotorToJointPos(present_position)
                          IN  End(t, IF r.exc # "" THEN Raised(r.exc)
                                     ELSE Returned(r.joint_pos))
    /\ UNCHANGED <<hand_vars, transport_vars, motor_pos>>

\* set_joint_pos(joint_pos), lines 206-208 with _joint_to_motor_pos and
\* _set_motor_pos, when the k-th of its transport calls raises: the exception,
\* the calls made, and where the motors stand afterwards.
set_joint_pos(joint_pos, k) ==
    LET r == joint_to_motor_loop(joint_pos, 1, present_position)
        cs == <<ReadPos, ReadPos, [fn |-> "write_desired_pos", arg |-> r.motor_pos]>>
    IN  IF k = 1
           THEN [exc |-> "TransportError", log |-> Logged(<<ReadPos>>, 1),
                 pos |-> present_position]
        ELSE IF r.exc # ""
           THEN [exc |-> r.exc, log |-> Logged(<<ReadPos>>, 0), pos |-> present_position]
        ELSE IF k \in {2, 3}
           THEN [exc |-> "TransportError", log |-> Logged(cs, k), pos |-> present_position]
        ELSE [exc |-> "", log |-> Logged(cs, 0), pos |-> Moved(r.motor_pos)]

-----------------------------------------------------------------------------
(* calibrate *)

\* config.yaml: calib_step_size, calib_threshold, calib_num_stable (lines 39-42),
\* in whole units of position: a step exceeds the threshold, as the defaults
\* 0.1 and 0.01 do, and the buffer holds two samples instead of 20.
calib_step_size == 2
calib_threshold == 1
calib_num_stable == 2

\* Iterations of the driving loop of one step that the model follows.
MaxDrive == 4

\* calibrate() and init_joints() calls that the model follows.
MaxPasses == 1

\* No calibrate() call in progress.
NoCal ==
    [limits |-> EmptyTable, step |-> 0, inc |-> EmptyTable, reached |-> EmptyTable,
     dir |-> EmptyTable, buf |-> EmptyTable, joints |-> None, aliased |-> FALSE,
     iters |-> 0, cur |-> <<>>, written |-> <<>>]

\* calibrate, line 247: the locals of a call that begins.
NewCal == [NoCal EXCEPT !.limits = [m \in Range(config.motor_ids) |-> <<None, None>>]]

\* `value * np.ones(len(self.motor_ids))`
Ones(value) == [i \in DOMAIN config.motor_ids |-> value]

\* The motor of each joint of a step, in the order of the step.
StepMotors(step) == [i \in DOMAIN step |-> Get(config.joint_to_motor_map, step[i][1])]

\* directions[motor_id] after lines 257-259
Direction(step, m) ==
    LET at == {i \in DOMAIN step : StepMotors(step)[i] = m}
        last == CHOOSE i \in at : \A j \in at : j <= i
    IN  IF step[last][2] = "flex" THEN 1 ELSE 0 - 1

\* deque(maxlen=calib_num_stable).append(x)
DequeAppend(buffer, x) ==
    IF Len(buffer) < calib_num_stable THEN Append(buffer, x) ELSE Append(Tail(buffer), x)

\* One transport call of calibrate or init_joints inside its with block: the
\* call fn(a) is made and returns, and the operation goes on at next; or it
\* raises, and so does the operation.
CalCall(t, fn, a, next) ==
    /\ CanAcquire(t)
    /\ IF dxl_client = None
          THEN /\ End(t, Raised("AttributeError"))
               /\ cal' = NoCal
               /\ UNCHANGED calls
          ELSE \E k \in Fails(1) :
                  /\ calls' = [calls EXCEPT ![t] = @ \o Logged(<<[fn |-> fn, arg |-> a]>>, k)]
                  /\ IF k = 1 THEN End(t, Raised("TransportError")) /\ cal' = NoCal
                     ELSE Goto(t, next) /\ UNCHANGED cal

Unchanged_by_calibrate_call ==
    <<config, calib_file, hand, init_error, calibrated, motor_limits,
      joint_to_motor_ratios, ret_is_calibrated, mech, passes, transport_vars, op, arg, motor_pos>>

\* A set_joint_pos(joint_pos) call of calibrate or init_joints; cal_next are
\* the locals of calibrate after it.
CalSetJointPos(t, joint_pos, next, cal_next) ==
    /\ CanAcquire(t)
    /\ IF dxl_client = None
          THEN /\ End(t, Raised("AttributeError"))
               /\ cal' = NoCal
               /\ UNCHANGED <<calls, present_position>>
          ELSE \E k \in Fails(3) :
                  LET r == set_joint_pos(joint_pos, k)
                  IN  /\ calls' = [calls EXCEPT ![t] = @ \o r.log]
                      /\ present_position' = r.pos
                      /\ IF r.exc # "" THEN End(t, Raised(r.exc)) /\ cal' = NoCal
                         ELSE /\ cal' = cal_next
                              /\ IF next = "idle" THEN End(t, Returned(<<>>))
                                 ELSE Goto(t, next)
    /\ UNCHANGED <<config, calib_file, hand, init_error, calibrated, motor_limits,
                   joint_to_motor_ratios, ret_is_calibrated, mech, passes, dxl_client,
                   motor_lock, clients, connect_succeeded, op, arg, motor_pos>>

\* calibrate(), line 247
CalibrateCall(t) ==
    /\ passes < MaxPasses
    /\ Start(t, "calibrate", <<>>)
    /\ Goto(t, "cal_mode")
    /\ calls' = [calls EXCEPT ![t] = <<>>]
    /\ cal' = NewCal
    /\ passes' = passes + 1
    /\ UNCHANGED <<config, calib_file, hand, init_error, calibrated, motor_limits,
                   joint_to_motor_ratios, ret_is_calibrated, mech, transport_vars,
                   motor_pos>>

\* line 250: set_control_mode('current_based_position')
CalibrateSetMode(t) ==
    /\ pc[t] = "cal_mode"
    /\ CalCall(t, "set_operating_mode", mode_map["current_based_position"], "cal_current")
    /\ UNCHANGED Unchanged_by_calibrate_call

\* line 251: set_max_current(self.calib_current)
CalibrateSetCurrent(t) ==
    /\ pc[t] = "cal_current"
    /\ CalCall(t, "write_desired_current", Ones(config.calib_current), "cal_torque")
    /\ UNCHANGED Unchanged_by_calibrate_call

\* line 252: enable_torque()
CalibrateEnableTorque(t) ==
    /\ pc[t] = "cal_torque"
    /\ CanAcquire(t)
    /\ IF dxl_client = None
          THEN End(t, Raised("AttributeError")) /\ cal' = NoCal /\ UNCHANGED calls
          ELSE \E k \in Fails(1) :
                  /\ calls' = [calls EXCEPT ![t] =
                                  @ \o Logged(<<[fn |-> "set_torque_enabled", arg |-> TRUE]>>, k)]
                  /\ IF k = 1 THEN End(t, Raised("TransportError")) /\ cal' = NoCal
                     ELSE Goto(t, "cal_step") /\ cal' = [cal EXCEPT !.step = 1]
    /\ UNCHANGED Unchanged_by_calibrate_call

\* lines 254-263: the next step of calib_sequence begins with fresh locals, or
\* the sequence is over.
CalibrateStepBegin(t) ==
    /\ pc[t] = "cal_step"
    /\ IF cal.step > Len(config.calib_sequence)
          THEN Goto(t, "cal_flag") /\ UNCHANGED cal
          ELSE LET step == config.calib_sequence[cal.step]
               IN  IF \E i \in DOMAIN step : step[i][1] \notin Keys(config.joint_to_motor_map)
                      THEN End(t, Raised("KeyError")) /\ cal' = NoCal
                      ELSE /\ Goto(t, "cal_loop")
                           /\ cal' = [cal EXCEPT
                                 !.inc = EmptyTable,
                                 !.reached = [m \in Range(StepMotors(step)) |-> FALSE],
                                 !.dir = [m \in Range(StepMotors(step)) |-> Direction(step, m)],
                                 !.buf = [m \in Range(StepMotors(step)) |-> <<>>],
                                 !.joints = Some(<<>>),
                                 !.iters = 0]
    /\ UNCHANGED <<Unchanged_by_calibrate_call, calls>>

\* desired_increment after lines 266-268: the motors not at their limit get
\* their increment, the others keep the entry they have.
desired_increment(c) ==
    [m \in DOMAIN c.inc \cup {m \in DOMAIN c.reached : ~c.reached[m]} |->
        IF ~c.reached[m] THEN c.dir[m] * calib_step_size ELSE c.inc[m]]

\* _set_motor_pos(desired_pos, rel_to_current=True) for a dict, lines 382-395
motor_pos_array(desired_pos, current_pos) ==
    [i \in DOMAIN config.motor_ids |->
        GetOr(desired_pos, config.motor_ids[i], 0) + current_pos[i]]

\* lines 265-270: some motor of the step is not at its limit; the increments
\* are written in one _set_motor_pos call.
CalibrateDrive(t) ==
    /\ pc[t] = "cal_loop"
    /\ \E m \in DOMAIN cal.reached : ~cal.reached[m]
    /\ cal.iters < MaxDrive
    /\ CanAcquire(t)
    /\ IF dxl_client = None
          THEN /\ End(t, Raised("AttributeError"))
               /\ cal' = NoCal
               /\ UNCHANGED <<calls, present_position>>
          ELSE \E k \in Fails(2) :
                  LET inc == desired_increment(cal)
                      array == motor_pos_array(inc, present_position)
                      cs == <<ReadPos, [fn |-> "write_desired_pos", arg |-> array]>>
                  IN  /\ calls' = [calls EXCEPT ![t] = @ \o Logged(cs, k)]
                      /\ IF k # 0
                            THEN /\ End(t, Raised("TransportError"))
                                 /\ cal' = NoCal
                                 /\ UNCHANGED present_position
                            ELSE /\ Goto(t, "cal_sample")
                                 /\ cal' = [cal EXCEPT !.inc = inc,
                                                       !.cur = present_position,
                                                       !.written = array]
                                 /\ present_position' = Moved(array)
    /\ UNCHANGED <<config, calib_file, hand, init_error, calibrated, motor_limits,
                   joint_to_motor_ratios, ret_is_calibrated, mech, passes, dxl_client,
                   motor_lock, clients, connect_succeeded, op, arg, motor_pos>>

\* CalibrateDrive step by step, for callers that run beside it.
\* Lines 265-270 and 378-379: _set_motor_pos takes the lock, get_motor_pos
\* takes it again and enters read_pos_vel_cur.
CalibrateDriveBegin(t) ==
    /\ pc[t] = "cal_loop"
    /\ \E m \in DOMAIN cal.reached : ~cal.reached[m]
    /\ cal.iters < MaxDrive
    /\ CanAcquire(t)
    /\ IF dxl_client = None
          THEN /\ End(t, Raised("AttributeError"))
               /\ cal' = NoCal
               /\ UNCHANGED <<calls, motor_lock>>
          ELSE /\ Goto(t, "drive_read")
               /\ Enter(t, calls[t], "read_pos_vel_cur", <<>>)
               /\ motor_lock' = Acquire(t, 2)
               /\ cal' = [cal EXCEPT !.inc = desired_increment(cal)]
    /\ UNCHANGED <<config, calib_file, hand, init_error, calibrated, motor_limits,
                   joint_to_motor_ratios, ret_is_calibrated, mech, passes, dxl_client,
                   clients, present_position, connect_succeeded, op, arg, motor_pos>>

\* Lines 379-397: the read returns inside the lock of _set_motor_pos and the
\* increments, added to the positions read, go to write_desired_pos.
CalibrateDriveWrite(t) ==
    /\ pc[t] = "drive_read"
    /\ \E s \in Outcomes(Client(t)) :
          IF s # "ok"
             THEN /\ Leave(t, s)
                  /\ End(t, Raised("TransportError"))
                  /\ motor_lock' = Release(2)
                  /\ cal' = NoCal
             ELSE LET array == motor_pos_array(cal.inc, present_position)
                  IN  /\ Goto(t, "drive_write")
                      /\ Enter(t, Left(calls[t], s), "write_desired_pos", array)
                      /\ motor_lock' = Release(1)
                      /\ cal' = [cal EXCEPT !.cur = present_position, !.written = array]
    /\ UNCHANGED <<config, calib_file, hand, init_error, calibrated, motor_limits,
                   joint_to_motor_ratios, ret_is_calibrated, mech, passes, dxl_client,
                   clients, present_position, connect_succeeded, op, arg, motor_pos>>

\* CalibrateDriveEnd with time.sleep(calib_step_period) inside the with block
\* of _set_motor_pos: the lock is kept through the pause.
CalibrateDriveEndInsideLock(t) ==
    /\ pc[t] = "drive_write"
    /\ \E s \in Outcomes(Client(t)) :
          /\ Leave(t, s)
          /\ IF s = "ok"
                THEN /\ present_position' = Moved(cal.written)
                     /\ Goto(t, "cal_sample")
                     /\ UNCHANGED <<cal, motor_lock>>
                ELSE /\ End(t, Raised("TransportError"))
                     /\ motor_lock' = Release(1)
                     /\ cal' = NoCal
                     /\ UNCHANGED present_position
    /\ UNCHANGED <<config, calib_file, hand, init_error, calibrated, motor_limits,
                   joint_to_motor_ratios, ret_is_calibrated, mech, passes, dxl_client,
                   clients, connect_succeeded, op, arg, motor_pos>>

\* Lines 397 and 271: write_desired_pos returns, the with block is left and
\* the thread pauses without the lock; or the write raises.
CalibrateDriveEnd(t) ==
    /\ pc[t] = "drive_write"
    /\ motor_lock' = Release(1)
    /\ \E s \in Outcomes(Client(t)) :
          /\ Leave(t, s)
          /\ IF s = "ok"
                THEN /\ present_position' = Moved(cal.written)
                     /\ Goto(t, "cal_sample")
                     /\ UNCHANGED cal
                ELSE /\ End(t, Raised("TransportError"))
                     /\ cal' = NoCal
                     /\ UNCHANGED present_position
    /\ UNCHANGED <<config, calib_file, hand, init_error, calibrated, motor_limits,
                   joint_to_motor_ratios, ret_is_calibrated, mech, passes, dxl_client,
                   clients, connect_succeeded, op, arg, motor_pos>>

\* lines 276-288 for one motor that is not at its limit: the sample goes to
\* its buffer; a full buffer of close samples marks the motor and sets one of
\* its limits to the mean.
sample(c, m, curr_pos) ==
    LET buffer == DequeAppend(c.buf[m], curr_pos[PyIndex(Len(curr_pos), m - 1)])
        hit == /\ Len(buffer) = calib_num_stable
               /\ allclose(buffer, buffer[1], calib_threshold)
        avg_limit == Some(mean(buffer))
    IN  [c EXCEPT
            !.buf[m] = buffer,
            !.reached[m] = hit,
            !.limits[m] = IF ~hit THEN @
                          ELSE IF c.dir[m] = 1 THEN <<@[1], avg_limit>>
                          ELSE <<avg_limit, @[2]>>]

\* lines 274-288 from item i of ms (the keys of desired_increment) on; calls
\* counts the transport calls made, the k-th of which raises.
RECURSIVE sample_loop(_, _, _, _, _, _)
sample_loop(c, ms, i, curr_pos, calls_made, k) ==
    IF i > Len(ms) THEN [exc |-> "", cal |-> c, calls |-> calls_made]
    ELSE IF c.reached[ms[i]] THEN sample_loop(c, ms, i + 1, curr_pos, calls_made, k)
    ELSE IF PyIndex(Len(curr_pos), ms[i] - 1) = 0
        THEN [exc |-> "IndexError", cal |-> c, calls |-> calls_made]
    ELSE IF calls_made + 1 = k
        THEN [exc |-> "TransportError", cal |-> c, calls |-> calls_made + 1]
    ELSE sample_loop(sample(c, ms[i], curr_pos), ms, i + 1, curr_pos, calls_made + 1, k)

\* The keys of a dict in the order they were inserted: the items of s, each
\* where it comes first.
RECURSIVE KeyOrder(_)
KeyOrder(s) ==
    IF s = <<>> THEN <<>>
    ELSE LET front == SubSeq(s, 1, Len(s) - 1)
             last == s[Len(s)]
         IN  IF last \in Range(front) THEN KeyOrder(front)
             ELSE Append(KeyOrder(front), last)

\* The keys of desired_increment: the motors of the step.
IncrementKeys(step) == KeyOrder(StepMotors(step))

\* lines 271-288: the positions are read and every motor of the step that is
\* not at its limit is sampled (with a read of its current, line 278).  Once
\* line 304 has run, self.motor_limits is the dict that line 286/288 writes.
CalibrateSample(t) ==
    /\ pc[t] = "cal_sample"
    /\ CanAcquire(t)
    /\ IF dxl_client = None
          THEN /\ End(t, Raised("AttributeError"))
               /\ cal' = NoCal
               /\ UNCHANGED <<calls, motor_limits>>
          ELSE LET ms == IncrementKeys(config.calib_sequence[cal.step])
                   n == 1 + Cardinality({m \in DOMAIN cal.reached : ~cal.reached[m]})
               IN  \E k \in Fails(n) :
                      IF k = 1
                         THEN /\ calls' = [calls EXCEPT ![t] = @ \o Logged(<<ReadPos>>, 1)]
                              /\ End(t, Raised("TransportError"))
                              /\ cal' = NoCal
                              /\ UNCHANGED motor_limits
                         ELSE LET r == sample_loop(cal, ms, 1, present_position, 1, k)
                              IN  /\ calls' = [calls EXCEPT ![t] =
                                        @ \o Logged([i \in 1..r.calls |-> ReadPos], k)]
                                  /\ motor_limits' = IF cal.aliased THEN r.cal.limits
                                                     ELSE motor_limits
                                  /\ IF r.exc # ""
                                        THEN End(t, Raised(r.exc)) /\ cal' = NoCal
                                        ELSE /\ Goto(t, "cal_loop")
                                             /\ cal' = [r.cal EXCEPT !.iters = @ + 1]
    /\ UNCHANGED <<config, calib_file, hand, init_error, calibrated,
                   joint_to_motor_ratios, ret_is_calibrated, mech, passes, transport_vars,
                   op, arg, motor_pos>>

\* The motors, in the order of motor_limits.items(), that have both limits.
BothLimits(limits) ==
    LET HasBoth(m) == ~AnyNone(limits[m])
    IN  SelectSeq(KeyOrder(config.motor_ids), HasBoth)

\* lines 290-302: every motor exits the driving loop at its limit; the ratio
\* of each motor with both limits is set, its joint staged for zeroing, and
\* the ratio table persisted.
CalibrateRatios(t) ==
    /\ pc[t] = "cal_loop"
    /\ \A m \in DOMAIN cal.reached : cal.reached[m]
    /\ LET both == BothLimits(cal.limits)
           ratios == [m \in DOMAIN joint_to_motor_ratios \cup Range(both) |->
                        IF m \in Range(both)
                           THEN Ratio(cal.limits[m],
                                      Get(config.joint_roms, motor_to_joint_map(m)))
                           ELSE joint_to_motor_ratios[m]]
       IN  IF \E m \in Range(both) : motor_to_joint_map(m) \notin Keys(config.joint_roms)
              THEN /\ End(t, Raised("KeyError"))
                   /\ cal' = NoCal
                   /\ UNCHANGED <<joint_to_motor_ratios, calib_file>>
              ELSE /\ Goto(t, "cal_persist_limits")
                   /\ joint_to_motor_ratios' = ratios
                   /\ cal' = [cal EXCEPT !.joints =
                                 Some([i \in DOMAIN both |-> <<motor_to_joint_map(both[i]), 0>>])]
                   /\ calib_file' = update_yaml(calib_file, "joint_to_motor_ratios", ratios)
    /\ UNCHANGED <<config, hand, init_error, calibrated, motor_limits,
                   ret_is_calibrated, mech, passes, transport_vars, op, arg, motor_pos, calls>>

\* A calibration step that keeps its limits in memory only: line 303 omitted.
CalibrateKeepLimitsInMemory(t) ==
    /\ pc[t] = "cal_persist_limits"
    /\ Goto(t, "cal_zero")
    /\ motor_limits' = cal.limits
    /\ cal' = [cal EXCEPT !.aliased = TRUE]
    /\ UNCHANGED <<config, hand, init_error, calibrated, joint_to_motor_ratios, calib_file,
                   ret_is_calibrated, mech, passes, transport_vars, op, arg, motor_pos, calls>>

\* lines 303-304: the limits are persisted and become self.motor_limits.
CalibratePersistLimits(t) ==
    /\ pc[t] = "cal_persist_limits"
    /\ Goto(t, "cal_zero")
    /\ calib_file' = update_yaml(calib_file, "motor_limits", cal.limits)
    /\ motor_limits' = cal.limits
    /\ cal' = [cal EXCEPT !.aliased = TRUE]
    /\ UNCHANGED <<config, hand, init_error, calibrated, joint_to_motor_ratios,
                   ret_is_calibrated, mech, passes, transport_vars, op, arg, motor_pos, calls>>

\* line 305: set_joint_pos(calibrated_joints); then the next step.
CalibrateStepZero(t) ==
    /\ pc[t] = "cal_zero"
    /\ CalSetJointPos(t, Val(cal.joints), "cal_step", [cal EXCEPT !.step = @ + 1])

\* lines 308-310: the flag is recomputed and persisted.
CalibrateFlag(t) ==
    /\ pc[t] = "cal_flag"
    /\ Goto(t, "cal_final_zero")
    /\ calibrated' = is_calibrated(motor_limits)
    /\ calib_file' = update_yaml(calib_file, "calibrated", is_calibrated(motor_limits))
    /\ UNCHANGED <<config, hand, init_error, motor_limits, joint_to_motor_ratios,
                   ret_is_calibrated, calib_vars, transport_vars, op, arg, motor_pos, calls>>

\* line 311: set_joint_pos(calibrated_joints); the name is unbound when the
\* loop over calib_sequence had no iteration.
CalibrateFinalZero(t) ==
    /\ pc[t] = "cal_final_zero"
    /\ IF cal.joints = None
          THEN /\ End(t, Raised("UnboundLocalError"))
               /\ cal' = NoCal
               /\ UNCHANGED <<config, calib_file, hand, init_error, calibrated,
                              motor_limits, joint_to_motor_ratios, ret_is_calibrated,
                              mech, passes, transport_vars, op, arg, motor_pos, calls>>
          ELSE CalSetJointPos(t, Val(cal.joints), "cal_restore", cal)

\* line 312: set_max_current(self.max_current); calibrate returns, to
\* init_joints when that called it.
CalibrateRestoreCurrent(t) ==
    /\ pc[t] = "cal_restore"
    /\ CanAcquire(t)
    /\ cal' = NoCal
    /\ IF dxl_client = None
          THEN End(t, Raised("AttributeError")) /\ UNCHANGED calls
          ELSE \E k \in Fails(1) :
                  /\ calls' = [calls EXCEPT ![t] = @ \o
                        Logged(<<[fn |-> "write_desired_current",
                                  arg |-> Ones(config.max_current)]>>, k)]
                  /\ IF k = 1 THEN End(t, Raised("TransportError"))
                     ELSE IF op[t] = "init_joints" THEN Goto(t, "init_zero")
                     ELSE End(t, Returned(<<>>))
    /\ UNCHANGED Unchanged_by_calibrate_call

-----------------------------------------------------------------------------
(* calibrate_manual: cal.step and cal.iters count the steps of calib_sequence *)
(* and the joints of a step, cal.joints is calibrated_joints.  Asked to flex  *)
(* or extend a joint, the operator moves its motor to that end stop.          *)

\* calibrate_manual(), lines 318-320: disable_torque()
CalibrateManualCall(t) ==
    /\ passes < MaxPasses
    /\ Start(t, "calibrate_manual", <<>>)
    /\ CanAcquire(t)
    /\ passes' = passes + 1
    /\ IF dxl_client = None
          THEN /\ End(t, Raised("AttributeError"))
               /\ calls' = [calls EXCEPT ![t] = <<>>]
               /\ UNCHANGED cal
          ELSE \E k \in Fails(1) :
                  /\ calls' = [calls EXCEPT ![t] =
                                  Logged(<<[fn |-> "set_torque_enabled", arg |-> FALSE]>>, k)]
                  /\ IF k = 1 THEN End(t, Raised("TransportError")) /\ UNCHANGED cal
                     ELSE /\ Goto(t, "man_joint")
                          /\ cal' = [NoCal EXCEPT !.step = 1, !.iters = 1,
                                                  !.joints = Some(<<>>)]
    /\ UNCHANGED <<config, calib_file, hand, init_error, calibrated, motor_limits,
                   joint_to_motor_ratios, ret_is_calibrated, mech, transport_vars,
                   motor_pos>>

\* lines 321-339: the next joint of the sequence.  Both limits of its motor
\* are read into self.motor_limits, its ratio is set, both tables persisted.
CalibrateManualJoint(t) ==
    /\ pc[t] = "man_joint"
    /\ CanAcquire(t)
    /\ IF cal.step > Len(config.calib_sequence)
          THEN /\ Goto(t, "man_finish")
               /\ UNCHANGED <<cal, calls, motor_limits, joint_to_motor_ratios, calib_file,
                              present_position>>
       ELSE IF cal.iters > Len(config.calib_sequence[cal.step])
          THEN /\ Goto(t, "man_joint")
               /\ cal' = [cal EXCEPT !.step = @ + 1, !.iters = 1]
               /\ UNCHANGED <<calls, motor_limits, joint_to_motor_ratios, calib_file,
                              present_position>>
       ELSE LET joint == config.calib_sequence[cal.step][cal.iters][1]
                motor_id == Get(config.joint_to_motor_map, joint)
                at == CHOOSE i \in DOMAIN config.motor_ids : config.motor_ids[i] = motor_id
                read == PyIndex(Len(config.motor_ids), motor_id - 1)
                flexed == [present_position EXCEPT ![at] = StopHi]
                extended == [present_position EXCEPT ![at] = StopLo]
                upper == [motor_limits EXCEPT ![motor_id][2] = Some(flexed[read])]
                both == [upper EXCEPT ![motor_id][1] = Some(extended[read])]
                name == motor_to_joint_map(motor_id)
                ratios == [m \in DOMAIN joint_to_motor_ratios \cup {motor_id} |->
                             IF m = motor_id
                                THEN Ratio(both[motor_id], Get(config.joint_roms, name))
                                ELSE joint_to_motor_ratios[m]]
                Raise(e, n, k, limits, pos) ==
                    /\ End(t, Raised(e))
                    /\ calls' = [calls EXCEPT ![t] = @ \o Logged([i \in 1..n |-> ReadPos], k)]
                    /\ cal' = NoCal
                    /\ motor_limits' = limits
                    /\ present_position' = pos
                    /\ UNCHANGED <<joint_to_motor_ratios, calib_file>>
            IN  \E k \in Fails(2) :
                   IF k = 1 THEN Raise("TransportError", 1, 1, motor_limits, flexed)
                   ELSE IF read = 0 THEN Raise("IndexError", 1, 0, motor_limits, flexed)
                   ELSE IF motor_id \notin DOMAIN motor_limits
                      THEN Raise("KeyError", 1, 0, motor_limits, flexed)
                   ELSE IF k = 2 THEN Raise("TransportError", 2, 2, upper, extended)
                   ELSE /\ Goto(t, "man_show")
                        /\ calls' = [calls EXCEPT ![t] = @ \o Logged(<<ReadPos, ReadPos>>, 0)]
                        /\ motor_limits' = both
                        /\ joint_to_motor_ratios' = ratios
                        /\ cal' = [cal EXCEPT !.joints = Some(DictSet(Val(@), name, 0))]
                        /\ calib_file' = update_yaml(
                               update_yaml(calib_file, "joint_to_motor_ratios", ratios),
                               "motor_limits", both)
                        /\ present_position' = extended
    /\ UNCHANGED <<config, hand, init_error, calibrated, ret_is_calibrated, mech, passes,
                   dxl_client, motor_lock, clients, connect_succeeded, op, arg, motor_pos>>

\* lines 341-349: five times, the motor and joint positions are read and
\* shown; then the next joint.
CalibrateManualShow(t) ==
    /\ pc[t] = "man_show"
    /\ CanAcquire(t)
    /\ LET joint == config.calib_sequence[cal.step][cal.iters][1]
           r == MotorToJointPos(present_position)
           reads == [i \in 1..10 |-> ReadPos]
       IN  \E k \in Fails(10) :
              IF k \in {1, 2}
                 THEN /\ End(t, Raised("TransportError"))
                      /\ calls' = [calls EXCEPT ![t] = @ \o Logged(reads, k)]
                      /\ cal' = NoCal
              ELSE IF r.exc # "" \/ joint \notin Keys(r.joint_pos)
                 THEN /\ End(t, Raised("KeyError"))
                      /\ calls' = [calls EXCEPT ![t] = @ \o Logged(<<ReadPos, ReadPos>>, 0)]
                      /\ cal' = NoCal
              ELSE IF k # 0
                 THEN /\ End(t, Raised("TransportError"))
                      /\ calls' = [calls EXCEPT ![t] = @ \o Logged(reads, k)]
                      /\ cal' = NoCal
              ELSE /\ Goto(t, "man_joint")
                   /\ calls' = [calls EXCEPT ![t] = @ \o Logged(reads, 0)]
                   /\ cal' = [cal EXCEPT !.iters = @ + 1]
    /\ UNCHANGED Unchanged_by_calibrate_call

\* lines 352-357: enable_torque(); both tables and the recomputed flag are
\* persisted.  Lines 364-366 are lines 311-312 of calibrate.
CalibrateManualFinish(t) ==
    /\ pc[t] = "man_finish"
    /\ CanAcquire(t)
    /\ IF dxl_client = None
          THEN /\ End(t, Raised("AttributeError")) /\ cal' = NoCal
               /\ UNCHANGED <<calls, calibrated, calib_file>>
          ELSE \E k \in Fails(1) :
                  /\ calls' = [calls EXCEPT ![t] =
                                  @ \o Logged(<<[fn |-> "set_torque_enabled", arg |-> TRUE]>>, k)]
                  /\ IF k = 1
                        THEN /\ End(t, Raised("TransportError")) /\ cal' = NoCal
                             /\ UNCHANGED <<calibrated, calib_file>>
                        ELSE /\ Goto(t, "cal_final_zero")
                             /\ calibrated' = is_calibrated(motor_limits)
                             /\ calib_file' =
                                   update_yaml(
                                     update_yaml(
                                       update_yaml(calib_file, "joint_to_motor_ratios",
                                                   joint_to_motor_ratios),
                                       "motor_limits", motor_limits),
                                     "calibrated", is_calibrated(motor_limits))
                             /\ UNCHANGED cal
    /\ UNCHANGED <<config, hand, init_error, motor_limits, joint_to_motor_ratios,
                   ret_is_calibrated, mech, passes, transport_vars, op, arg, motor_pos>>

-----------------------------------------------------------------------------
(* init_joints *)

\* init_joints(calibrate)
InitJointsCall(t, calibrate) ==
    /\ passes < MaxPasses
    /\ Start(t, "init_joints", <<calibrate>>)
    /\ Goto(t, "init_torque")
    /\ calls' = [calls EXCEPT ![t] = <<>>]
    /\ UNCHANGED <<hand_vars, transport_vars, motor_pos>>

\* line 221: enable_torque()
InitJointsEnableTorque(t) ==
    /\ pc[t] = "init_torque"
    /\ CalCall(t, "set_torque_enabled", TRUE, "init_mode")
    /\ UNCHANGED Unchanged_by_calibrate_call

\* line 222: set_control_mode(self.control_mode), which raises on a mode
\* that mode_map does not hold (lines 158-160).
InitJointsSetMode(t) ==
    /\ pc[t] = "init_mode"
    /\ IF config.control_mode \notin DOMAIN mode_map
          THEN /\ End(t, Raised("ValueError: Invalid control mode."))
               /\ UNCHANGED <<cal, calls>>
          ELSE CalCall(t, "set_operating_mode", mode_map[config.control_mode],
                       "init_current")
    /\ UNCHANGED Unchanged_by_calibrate_call

\* line 223: set_max_current(self.max_current)
InitJointsSetCurrent(t) ==
    /\ pc[t] = "init_current"
    /\ CalCall(t, "write_desired_current", Ones(config.max_current), "init_calibrate")
    /\ UNCHANGED Unchanged_by_calibrate_call

\* lines 225-226: calibrate() when the flag is not set or calibrate was passed
InitJointsCalibrate(t) ==
    /\ pc[t] = "init_calibrate"
    /\ IF ~calibrated \/ arg[t][1]
          THEN Goto(t, "cal_mode") /\ cal' = NewCal /\ passes' = passes + 1
          ELSE Goto(t, "init_zero") /\ UNCHANGED <<cal, passes>>
    /\ UNCHANGED <<config, calib_file, hand, init_error, calibrated, motor_limits,
                   joint_to_motor_ratios, ret_is_calibrated, mech, transport_vars,
                   op, arg, motor_pos, calls>>

\* line 228: set_joint_pos({joint: 0 for joint in self.joint_ids})
InitJointsZero(t) ==
    /\ pc[t] = "init_zero"
    /\ CalSetJointPos(t, [i \in DOMAIN KeyOrder(config.joint_ids) |->
                            <<KeyOrder(config.joint_ids)[i], 0>>], "idle", cal)

-----------------------------------------------------------------------------
(* The process dies inside calibrate() or calibrate_manual() and a new one   *)
(* starts from the files                                                    *)

CalibratePcs ==
    {"cal_mode", "cal_current", "cal_torque", "cal_step", "cal_loop", "cal_sample",
     "cal_persist_limits", "cal_zero", "cal_flag", "cal_final_zero", "cal_restore",
     "man_joint", "man_show", "man_finish"}

Crash(t) ==
    /\ pc[t] \in CalibratePcs
    /\ hand' = "new"
    /\ init_error' = ""
    /\ calibrated' = FALSE
    /\ motor_limits' = EmptyTable
    /\ joint_to_motor_ratios' = EmptyTable
    /\ ret_is_calibrated' = None
    /\ cal' = NoCal
    /\ dxl_client' = None
    /\ motor_lock' = Free
    /\ clients' = <<>>
    /\ connect_succeeded' = FALSE
    /\ pc' = [u \in Threads |-> "idle"]
    /\ op' = [u \in Threads |-> ""]
    /\ arg' = [u \in Threads |-> <<>>]
    /\ motor_pos' = [u \in Threads |-> <<>>]
    /\ calls' = [u \in Threads |-> <<>>]
    /\ result' = [u \in Threads |-> Running]
    /\ UNCHANGED <<config, calib_file, mech, passes, present_position>>

-----------------------------------------------------------------------------
(* The program *)

\* One step of thread t, its arguments drawn from the sets of in.
Operation(t, in) ==
    \/ ConnectNew(t) \/ ConnectCall(t) \/ ConnectReturn(t) \/ ConnectExcept(t)
    \/ DisconnectBegin(t) \/ DisconnectTorqueReturn(t)
    \/ DisconnectCall(t) \/ DisconnectReturn(t)
    \/ \E motor_ids \in in.motor_ids : EnableTorqueCall(t, motor_ids)
    \/ EnableTorqueReturn(t)
    \/ \E motor_ids \in in.motor_ids : DisableTorqueCall(t, motor_ids)
    \/ DisableTorqueReturn(t)
    \/ \E current \in in.current : SetMaxCurrentCall(t, current)
    \/ SetMaxCurrentReturn(t)
    \/ \E a \in in.mode : SetControlModeCall(t, a)
    \/ SetControlModeReturn(t)
    \/ GetMotorPosCall(t) \/ GetMotorPosReturn(t)
    \/ GetMotorCurrentCall(t) \/ GetMotorCurrentReturn(t)
    \/ GetMotorTempCall(t) \/ GetMotorTempReturn(t)
    \/ \E joint_pos \in in.joint_pos : SetJointPosBegin(t, joint_pos)
    \/ JointToMotorPos(t)
    \/ SetMotorPosBegin(t) \/ SetMotorPosWrite(t) \/ SetMotorPosReturn(t)

ThreadInit ==
    /\ dxl_client = None
    /\ motor_lock = Free
    /\ clients = <<>>
    /\ present_position = <<0, 0>>
    /\ mech = <<"free", "free">>
    /\ passes = 0
    /\ connect_succeeded = FALSE
    /\ pc = [t \in Threads |-> "idle"]
    /\ op = [t \in Threads |-> ""]
    /\ arg = [t \in Threads |-> <<>>]
    /\ motor_pos = [t \in Threads |-> <<>>]
    /\ calls = [t \in Threads |-> <<>>]
    /\ result = [t \in Threads |-> Running]

HandInit ==
    /\ hand = "new"
    /\ init_error = ""
    /\ calibrated = FALSE
    /\ motor_limits = EmptyTable
    /\ joint_to_motor_ratios = EmptyTable
    /\ ret_is_calibrated = None
    /\ cal = NoCal

(* One caller: every operation, every kind of argument, calibration files    *)
(* with complete, partial and missing limits.                                *)

\* The calibration files the hand is constructed from.
SpecTables ==
    {EmptyTable,
     [m \in {1} |-> <<Some(0), Some(2)>>],
     [m \in {1, 2} |-> <<Some(0), Some(2)>>],
     [m \in {1, 2} |-> IF m = 1 THEN <<Some(0), Some(2)>> ELSE <<Some(0), None>>]}

SpecFiles ==
    {[k \in {} |-> <<>>]} \cup
    {[calibrated |-> TRUE, motor_limits |-> l,
      joint_to_motor_ratios |-> RatiosOf(GoodConfig, l)] : l \in SpecTables}

JointValues == {1, 2}

Inputs ==
    [motor_ids |-> {None, Some(<<1>>), Some(<<3>>)},
     current |-> {[is_list |-> FALSE, value |-> <<300>>],
                  [is_list |-> TRUE, value |-> <<300, 300>>],
                  [is_list |-> TRUE, value |-> <<300>>]},
     mode |-> {[mode |-> m, motor_ids |-> ids] :
                  m \in {"current_based_position", "current_position"},
                  ids \in {None, Some(<<1>>), Some(<<3>>)}},
     joint_pos |-> DictsUpTo(Range(GoodConfig.joint_ids) \cup {"zz"}, JointValues, 2)]

Init ==
    /\ config = GoodConfig
    /\ calib_file \in SpecFiles
    /\ HandInit
    /\ ThreadInit

Next == Construct \/ IsCalibratedCall \/ Operation("t1", Inputs)

Spec == Init /\ [][Next]_vars

(* Two callers at once on a calibrated hand.                                 *)

ThreadsInputs ==
    [motor_ids |-> {None},
     current |-> {[is_list |-> FALSE, value |-> <<300>>]},
     mode |-> {[mode |-> "current_based_position", motor_ids |-> None]},
     joint_pos |-> {<< <<"a", 1>> >>, << <<"b", 1>> >>}]

ThreadsInit ==
    /\ config = GoodConfig
    /\ calib_file = [calibrated |-> TRUE,
                     motor_limits |-> [m \in {1, 2} |-> <<Some(0), Some(2)>>],
                     joint_to_motor_ratios |->
                         RatiosOf(GoodConfig, [m \in {1, 2} |-> <<Some(0), Some(2)>>])]
    /\ HandInit
    /\ ThreadInit

ThreadsNext == Construct \/ \E t \in Threads : Operation(t, ThreadsInputs)

SpecThreads == ThreadsInit /\ [][ThreadsNext]_vars

(* Construction alone, over many configurations and calibration files.       *)

CtorInit ==
    /\ \/ config \in IdConfigs /\ calib_file \in FewFiles
       \/ config \in OtherConfigs /\ calib_file \in FewFiles
       \/ config = GoodConfig /\ calib_file \in CalibFiles(GoodConfig)
    /\ HandInit
    /\ ThreadInit

CtorNext == Construct \/ IsCalibratedCall

SpecCtor == CtorInit /\ [][CtorNext]_vars

(* One caller that connects, calibrates and reads joint positions, over      *)
(* configurations, calibration files and motors that stall or run free.      *)

\* A position far from 0, where rtol * |b| of allclose exceeds one unit.
FarPosition == 200000

CalibConfigs ==
    {GoodConfig,
     [GoodConfig EXCEPT !.control_mode = "current_position"],
     [GoodConfig EXCEPT !.calib_sequence = <<>>],
     [GoodConfig EXCEPT !.calib_sequence =
         << << <<"b", "flex">> >>, << <<"b", "extend">> >> >>]}

CalibratedTable == [m \in {1, 2} |-> <<Some(StopLo), Some(StopHi)>>]

CalibInitFiles ==
    {[k \in {} |-> <<>>],
     [calibrated |-> TRUE, motor_limits |-> CalibratedTable,
      joint_to_motor_ratios |-> RatiosOf(GoodConfig, CalibratedTable)]}

\* The motors: where they stand and whether they stall at their end stops.
Motors ==
    {[pos |-> <<0, 0>>, mech |-> <<"stall", "stall">>],
     [pos |-> <<0, 0>>, mech |-> <<"stall", "free">>],
     [pos |-> <<0, FarPosition>>, mech |-> <<"stall", "free">>]}

CalibInit ==
    /\ config \in CalibConfigs
    /\ calib_file \in CalibInitFiles
    /\ HandInit
    /\ \E m \in Motors : present_position = m.pos /\ mech = m.mech
    /\ passes = 0
    /\ dxl_client = None
    /\ motor_lock = Free
    /\ clients = <<>>
    /\ connect_succeeded = FALSE
    /\ pc = [t \in Threads |-> "idle"]
    /\ op = [t \in Threads |-> ""]
    /\ arg = [t \in Threads |-> <<>>]
    /\ motor_pos = [t \in Threads |-> <<>>]
    /\ calls = [t \in Threads |-> <<>>]
    /\ result = [t \in Threads |-> Running]

Calibration(t) ==
    \/ ConnectNew(t) \/ ConnectCall(t) \/ ConnectReturn(t) \/ ConnectExcept(t)
    \/ GetJointPos(t)
    \/ \E calibrate \in BOOLEAN : InitJointsCall(t, calibrate)
    \/ InitJointsEnableTorque(t) \/ InitJointsSetMode(t) \/ InitJointsSetCurrent(t)
    \/ InitJointsCalibrate(t) \/ InitJointsZero(t)
    \/ CalibrateCall(t) \/ CalibrateSetMode(t) \/ CalibrateSetCurrent(t)
    \/ CalibrateEnableTorque(t) \/ CalibrateStepBegin(t) \/ CalibrateDrive(t)
    \/ CalibrateSample(t) \/ CalibrateRatios(t) \/ CalibratePersistLimits(t)
    \/ CalibrateStepZero(t) \/ CalibrateFlag(t) \/ CalibrateFinalZero(t)
    \/ CalibrateRestoreCurrent(t)
    \/ CalibrateManualCall(t) \/ CalibrateManualJoint(t) \/ CalibrateManualShow(t)
    \/ CalibrateManualFinish(t)
    \/ Crash(t)

CalibNext == Construct \/ Calibration("t1")

SpecCalib == CalibInit /\ [][CalibNext]_vars

(* The two conversions as functions: _joint_to_motor_pos applied to a dict    *)
(* of joint values over a live motor vector, then _motor_to_joint_pos applied *)
(* to the vector it returns, over limit tables of every shape.               *)

\* Limit tables with every bound None, 0 or 2, and the files that hold them.
RoundTripFiles ==
    {[calibrated |-> ~SomeLimitIncomplete(l), motor_limits |-> l,
      joint_to_motor_ratios |-> RatiosOf(GoodConfig, l)] :
        l \in [Range(GoodConfig.motor_ids) ->
                  {None, Some(0), Some(2)} \X {None, Some(0), Some(2)}]}

RoundTripDicts == DictsUpTo(Range(GoodConfig.joint_ids), JointValues, 2)

RoundTripInit ==
    /\ config \in {GoodConfig, [GoodConfig EXCEPT !.motor_ids = <<2, 1>>]}
    /\ calib_file \in RoundTripFiles
    /\ HandInit
    /\ present_position \in {<<0, 0>>, <<1, 2>>}
    /\ mech = <<"free", "free">>
    /\ passes = 0
    /\ dxl_client = None
    /\ motor_lock = Free
    /\ clients = <<>>
    /\ connect_succeeded = FALSE
    /\ pc = [t \in Threads |-> "idle"]
    /\ op = [t \in Threads |-> ""]
    /\ arg = [t \in Threads |-> <<>>]
    /\ motor_pos = [t \in Threads |-> <<>>]
    /\ calls = [t \in Threads |-> <<>>]
    /\ result = [t \in Threads |-> Running]

\* _joint_to_motor_pos(joint_pos), lines 427-436, over the live vector.
ApplyJointToMotor(t, joint_pos) ==
    /\ Start(t, "round_trip", joint_pos)
    /\ LET r == joint_to_motor_loop(joint_pos, 1, present_position)
       IN  IF r.exc # ""
              THEN /\ End(t, Raised(r.exc))
                   /\ UNCHANGED motor_pos
              ELSE /\ Goto(t, "motor_to_joint_pos")
                   /\ motor_pos' = [motor_pos EXCEPT ![t] = r.motor_pos]
    /\ UNCHANGED <<hand_vars, transport_vars, calls>>

\* _motor_to_joint_pos(motor_pos), lines 409-416, on the vector returned.
ApplyMotorToJoint(t) ==
    /\ pc[t] = "motor_to_joint_pos"
    /\ LET r == MotorToJointPos(motor_pos[t])
       IN  End(t, IF r.exc # "" THEN Raised(r.exc) ELSE Returned(r.joint_pos))
    /\ UNCHANGED <<hand_vars, transport_vars, op, arg, motor_pos, calls>>

RoundTripNext ==
    \/ Construct
    \/ \E joint_pos \in RoundTripDicts : ApplyJointToMotor("t1", joint_pos)
    \/ ApplyMotorToJoint("t1")

SpecRoundTrip == RoundTripInit /\ [][RoundTripNext]_vars

(* Two callers: one connects and runs a calibration pass whose driving      *)
(* writes take and leave the lock step by step, the other reads the          *)
(* temperatures or disconnects meanwhile.  A transport call made inside the  *)
(* with block of _set_motor_pos returns or raises, and a reader that keeps   *)
(* asking for the lock gets it when the pass leaves it free again and again  *)
(* for its pauses (time.sleep, line 271).                                    *)

LockNext ==
    \/ Construct
    \/ ConnectNew("t1") \/ ConnectCall("t1") \/ ConnectReturn("t1") \/ ConnectExcept("t1")
    \/ CalibrateCall("t1") \/ CalibrateSetMode("t1") \/ CalibrateSetCurrent("t1")
    \/ CalibrateEnableTorque("t1") \/ CalibrateStepBegin("t1")
    \/ CalibrateDriveBegin("t1") \/ CalibrateDriveWrite("t1") \/ CalibrateDriveEnd("t1")
    \/ CalibrateSample("t1") \/ CalibrateRatios("t1") \/ CalibratePersistLimits("t1")
    \/ CalibrateStepZero("t1") \/ CalibrateFlag("t1") \/ CalibrateFinalZero("t1")
    \/ CalibrateRestoreCurrent("t1")
    \/ GetMotorTempCall("t2") \/ GetMotorTempReturn("t2")
    \/ DisconnectBegin("t2") \/ DisconnectTorqueReturn("t2")
    \/ DisconnectCall("t2") \/ DisconnectReturn("t2")

\* A hand never calibrated; motor 2 stalls at its stops or runs free for ever.
LockInit ==
    /\ config = GoodConfig
    /\ calib_file = [k \in {} |-> <<>>]
    /\ HandInit
    /\ present_position = <<0, 0>>
    /\ mech \in {<<"stall", "stall">>, <<"stall", "free">>}
    /\ passes = 0
    /\ dxl_client = None
    /\ motor_lock = Free
    /\ clients = <<>>
    /\ connect_succeeded = FALSE
    /\ pc = [t \in Threads |-> "idle"]
    /\ op = [t \in Threads |-> ""]
    /\ arg = [t \in Threads |-> <<>>]
    /\ motor_pos = [t \in Threads |-> <<>>]
    /\ calls = [t \in Threads |-> <<>>]
    /\ result = [t \in Threads |-> Running]

SpecLock ==
    /\ LockInit
    /\ [][LockNext]_vars
    /\ WF_vars(CalibrateDriveWrite("t1"))
    /\ WF_vars(CalibrateDriveEnd("t1"))
    /\ SF_vars(GetMotorTempCall("t2"))

-----------------------------------------------------------------------------
(* Properties *)

\* The last operation of t was name, and it has ended.
Ended(t, name) == op[t] = name /\ pc[t] = "idle" /\ result[t].kind # "running"

\* The transport calls named fn in the log of t.
CallsOf(t, fn) == {i \in DOMAIN calls[t] : calls[t][i].fn = fn}

\* Every motor of the motor-identifier list has both limits defined.
AllLimitsDefined(ids, limits) ==
    \A m \in Range(ids) :
        /\ m \in DOMAIN limits
        /\ Len(limits[m]) = 2
        /\ ~IsNone(limits[m][1])
        /\ ~IsNone(limits[m][2])

\* C1: after construction (and after every calibration pass) the calibrated
\* flag is true if and only if every motor of motor_ids has both its lower and
\* its upper limit defined.
C1_CalibratedIffAllLimitsDefined ==
    hand = "constructed" =>
        (calibrated <=> AllLimitsDefined(config.motor_ids, motor_limits))

\* The indexes of the motor vector that joint_pos writes.
MentionedIndexes(joint_pos) ==
    {PyIndex(Len(config.motor_ids), Get(config.joint_to_motor_map, joint_pos[i][1]) - 1) :
        i \in {i \in DOMAIN joint_pos : joint_pos[i][1] \in Keys(config.joint_to_motor_map)}}

\* C2: the read of the live motor positions and the write of the derived vector
\* of one set_joint_pos call are one critical section: when the write of a call
\* is at the transport, the position it carries for every joint the call did
\* not mention is still that motor's position, no other write having come in
\* between.
C2_SetJointPosReadModifyWriteAtomic ==
    \A t \in Threads :
        pc[t] = "set_motor_pos_write" =>
            \A i \in DOMAIN motor_pos[t] \ MentionedIndexes(arg[t]) :
                motor_pos[t][i] = present_position[i]

\* C3: at most one thread is inside a transport call at any time, and a thread
\* inside a transport call holds the motor lock.
C3_TransportCallsUnderLock ==
    /\ \A t \in Threads : InTransport(t) => motor_lock.owner = t /\ motor_lock.count > 0
    /\ \A t, u \in Threads : InTransport(t) /\ InTransport(u) => t = u

\* C3 witness: one thread is inside a transport call while the other stands
\* before a with block of its own operation.
C3_Witness ==
    \E t, u \in Threads :
        /\ t # u
        /\ InTransport(t)
        /\ pc[u] \in {"connect_lock", "set_motor_pos"}

\* joint_pos mentions a joint whose motor has an undefined lower or upper limit.
MentionsUncalibrated(joint_pos) ==
    \E i \in DOMAIN joint_pos :
        /\ joint_pos[i][1] \in Keys(config.joint_to_motor_map)
        /\ ~AllLimitsDefined(<<Get(config.joint_to_motor_map, joint_pos[i][1])>>,
                             motor_limits)

\* C4: a set_joint_pos call (on a connected hand, its position read answered)
\* that mentions a joint whose motor has an undefined limit fails with the
\* not-calibrated error and issues no position write.
C4_UncalibratedJointFailsNotCalibrated ==
    \A t \in Threads :
        ( /\ Ended(t, "set_joint_pos")
          /\ MentionsUncalibrated(arg[t])
          /\ calls[t] # <<>>
          /\ calls[t][1].status = "ok" ) =>
            /\ result[t].kind = "raised"
            /\ result[t].exc = "ValueError: Motor is not calibrated."
            /\ CallsOf(t, "write_desired_pos") = {}

\* C5: is_calibrated() returns true if and only if every motor of motor_ids has
\* both limit bounds defined.
C5_IsCalibratedIffAllLimitsDefined ==
    ret_is_calibrated # None =>
        (Val(ret_is_calibrated) <=> AllLimitsDefined(config.motor_ids, motor_limits))

\* C6: a disconnect() call on a connected hand issues the torque-disable
\* command first and then releases the transport, also when the torque-disable
\* command fails.
C6_DisconnectAlwaysReleases ==
    \A t \in Threads :
        ( /\ Ended(t, "disconnect")
          /\ calls[t] # <<>>
          /\ calls[t][1].connected ) =>
            /\ calls[t][1].fn = "set_torque_enabled"
            /\ CallsOf(t, "disconnect") # {}
            /\ \A i \in CallsOf(t, "disconnect") : i > 1

\* C7: connect() and disconnect() never raise: each returns a (success,
\* message) pair, with success true exactly when its transport calls were made
\* and none of them failed; after a failed connect() the hand holds no
\* connection handle.
C7_ConnectDisconnectNeverRaise ==
    \A t \in Threads :
        (Ended(t, "connect") \/ Ended(t, "disconnect")) =>
            /\ result[t].kind = "returned"
            /\ Len(result[t].value) = 2
            /\ result[t].value[1] \in BOOLEAN
            /\ result[t].value[1] <=>
                  /\ calls[t] # <<>>
                  /\ \A i \in DOMAIN calls[t] : calls[t][i].status = "ok"
            /\ (op[t] = "connect" /\ ~result[t].value[1]) => dxl_client = None

\* C7 witness: a connect() whose transport call failed has returned its pair.
C7_Witness ==
    \E t \in Threads :
        /\ Ended(t, "connect")
        /\ calls[t] # <<>>
        /\ calls[t][Len(calls[t])].status = "raised"
        /\ result[t].kind = "returned"

MotorOps ==
    {"enable_torque", "disable_torque", "set_max_current", "set_control_mode",
     "get_motor_pos", "get_motor_current", "get_motor_temp", "set_joint_pos"}

\* C8: while no connect() has succeeded, every motor operation fails with the
\* not-connected error (the one require_connection raises, line 485) and
\* issues no transport call.
C8_NotConnectedError ==
    \A t \in Threads :
        ( /\ ~connect_succeeded
          /\ \E name \in MotorOps : Ended(t, name) ) =>
            /\ result[t].kind = "raised"
            /\ result[t].exc = "RuntimeError: Hand is not connected."
            /\ calls[t] = <<>>

\* C9: a set_joint_pos call (on a connected hand whose transport answers every
\* call) whose mapping holds a joint identifier that the configuration does not
\* declare is aborted by an exception and issues no position write.
C9_UndeclaredJointRejected ==
    \A t \in Threads :
        ( /\ Ended(t, "set_joint_pos")
          /\ \E i \in DOMAIN arg[t] : arg[t][i][1] \notin Range(config.joint_ids)
          /\ calls[t] # <<>>
          /\ \A i \in DOMAIN calls[t] : calls[t][i].status = "ok" ) =>
            /\ result[t].kind = "raised"
            /\ CallsOf(t, "write_desired_pos") = {}

\* The joint-to-motor map is a bijection between the declared joints and the
\* declared motors, each declared once.
JointMotorBijection(cfg) ==
    /\ Cardinality(Range(cfg.joint_ids)) = Len(cfg.joint_ids)
    /\ Cardinality(Range(cfg.motor_ids)) = Len(cfg.motor_ids)
    /\ Keys(cfg.joint_to_motor_map) = Range(cfg.joint_ids)
    /\ Values(cfg.joint_to_motor_map) = Range(cfg.motor_ids)
    /\ \A i, j \in DOMAIN cfg.joint_to_motor_map :
          cfg.joint_to_motor_map[i][2] = cfg.joint_to_motor_map[j][2] => i = j

\* C10: construction succeeds only if the joint-to-motor map is a bijection
\* between the declared joint identifiers and the declared motor identifiers.
C10_ConstructedOnlyIfBijection ==
    hand = "constructed" => JointMotorBijection(config)

\* Every transport call of the operation of t was made on a connected client
\* and answered.
AllAnswered(t) ==
    /\ calls[t] # <<>>
    /\ \A i \in DOMAIN calls[t] : calls[t][i].status = "ok"

\* C11: init_joints on a connected hand whose transport answers every call
\* returns, having enabled torque, then applied the configured control mode
\* (which set_control_mode accepts), then the configured max current, and
\* having commanded the joints to position 0 in its last call.
C11_InitJointsSequence ==
    \A t \in Threads :
        (Ended(t, "init_joints") /\ AllAnswered(t)) =>
            /\ result[t].kind = "returned"
            /\ Len(calls[t]) >= 4
            /\ calls[t][1].fn = "set_torque_enabled"
            /\ calls[t][2].fn = "set_operating_mode"
            /\ calls[t][3].fn = "write_desired_current"
            /\ calls[t][3].arg = Ones(config.max_current)
            /\ calls[t][Len(calls[t])].fn = "write_desired_pos"

\* C12: get_joint_pos (on a connected hand whose transport answers) returns a
\* dict with every declared joint: None for exactly the joints whose motor
\* has an undefined limit or no entry in the limits table, a number otherwise.
C12_GetJointPosUndefinedExactly ==
    \A t \in Threads :
        (Ended(t, "get_joint_pos") /\ AllAnswered(t)) =>
            /\ result[t].kind = "returned"
            /\ \A j \in Range(config.joint_ids) :
                  /\ j \in Keys(result[t].value)
                  /\ (Get(result[t].value, j) = None) <=>
                        ~AllLimitsDefined(<<Get(config.joint_to_motor_map, j)>>, motor_limits)

\* C13: with both bounds of every mentioned joint's motor defined,
\* motor-to-joint of joint-to-motor of p gives p for every mentioned joint
\* (up to rounding, which the fractions of this model do not have) and, for
\* every other joint, its position under the live motor vector.
C13_RoundTrip ==
    \A t \in Threads :
        (/\ Ended(t, "round_trip")
         /\ \A j \in Keys(arg[t]) :
               AllLimitsDefined(<<Get(config.joint_to_motor_map, j)>>, motor_limits)) =>
            /\ result[t].kind = "returned"
            /\ \A j \in Range(config.joint_ids) :
                  /\ j \in Keys(result[t].value)
                  /\ Get(result[t].value, j) =
                        IF j \in Keys(arg[t])
                           THEN Some(Whole(Get(arg[t], j)))
                           ELSE Get(MotorToJointPos(present_position).joint_pos, j)

\* C14: every driving write of a calibration step commands the increment
\* direction * step_size for the motors of the step that are not at their
\* limit, and a zero increment (the position read) for every other motor.
C14_DrivingWriteIncrements ==
    \A t \in Threads :
        pc[t] = "cal_sample" =>
            \A i \in DOMAIN config.motor_ids :
                LET m == config.motor_ids[i]
                IN  cal.written[i] - cal.cur[i] =
                        IF m \in DOMAIN cal.reached /\ ~cal.reached[m]
                           THEN cal.dir[m] * calib_step_size
                           ELSE 0

\* The buffer is full and all its samples are within calib_threshold of the
\* oldest one.
Stable(buffer) ==
    /\ Len(buffer) = calib_num_stable
    /\ \A i \in DOMAIN buffer : Abs(buffer[i] - buffer[1]) <= calib_threshold

\* C15: in a calibration step a motor is marked at its limit exactly when its
\* buffer of this step is full with all samples within calib_threshold of the
\* oldest one; the mean of the buffer is then its upper bound (flex) or its
\* lower bound (extend), and the motor is not sampled again.
C15_MarkedWhenStable ==
    \A t \in Threads :
        pc[t] = "cal_loop" =>
            \A m \in DOMAIN cal.reached :
                /\ cal.reached[m] <=> Stable(cal.buf[m])
                /\ cal.reached[m] =>
                      cal.limits[m][IF cal.dir[m] = 1 THEN 2 ELSE 1] = Some(mean(cal.buf[m]))

\* C16: the driving loop of a step is left only when every motor of the step
\* has produced calib_num_stable samples within calib_threshold of the first
\* of them; a step whose motor never does is never left.
C16_LoopExitsOnlyWhenStable ==
    \A t \in Threads :
        pc[t] \in {"cal_persist_limits", "cal_zero"} =>
            \A m \in DOMAIN cal.buf : Stable(cal.buf[m])

\* The arguments of the write_desired_current calls of t, in order.
CurrentsWritten(t) ==
    LET at == SelectSeq([i \in DOMAIN calls[t] |-> i],
                        LAMBDA i : calls[t][i].fn = "write_desired_current")
    IN  [k \in DOMAIN at |-> calls[t][at[k]].arg]

\* C17: a calibrate() call whose steps all finish (the transport answering
\* every call) returns, with the flag recomputed from the limits and
\* persisted, and the last current written being the configured max_current.
C17_CalibrateRestoresMaxCurrent ==
    \A t \in Threads :
        (Ended(t, "calibrate") /\ AllAnswered(t)) =>
            /\ result[t].kind = "returned"
            /\ calibrated = AllLimitsDefined(config.motor_ids, motor_limits)
            /\ GetOr(calib_file, "calibrated", FALSE) = calibrated
            /\ CurrentsWritten(t) # <<>>
            /\ CurrentsWritten(t)[Len(CurrentsWritten(t))] = Ones(config.max_current)
            /\ calls[t][Len(calls[t]) - 1].fn = "write_desired_pos"

\* A step of the calibration pass of t has just been completed.
StepBoundary(t) == pc[t] = "cal_zero" \/ (pc[t] = "cal_step" /\ cal.step > 1)

\* C18: at every step boundary of a calibration pass each motor has a scale
\* ratio if and only if both its limits are defined in the limits table, and
\* the ratio is (upper - lower) / (rom_max - rom_min) of its joint.
C18_RatioIffBothLimits ==
    \A t \in Threads :
        StepBoundary(t) =>
            \A m \in Range(config.motor_ids) :
                /\ m \in DOMAIN joint_to_motor_ratios <=>
                      AllLimitsDefined(<<m>>, motor_limits)
                /\ m \in DOMAIN joint_to_motor_ratios =>
                      joint_to_motor_ratios[m] =
                          Ratio(motor_limits[m],
                                Get(config.joint_roms, motor_to_joint_map(m)))

\* C19: the persisted calibration file never holds calibrated = true together
\* with a persisted limits table in which some motor has an undefined bound.
C19_PersistedFlagImpliesLimits ==
    (GetOr(calib_file, "calibrated", FALSE) /\ "motor_limits" \in DOMAIN calib_file) =>
        \A m \in DOMAIN calib_file.motor_limits : ~AnyNone(calib_file.motor_limits[m])

\* The slot of the limit pair that the step in progress finds for motor m:
\* 2 (upper) when flexing, 1 (lower) when extending, 0 when m is not driven.
InFlight(m) ==
    IF m \in DOMAIN cal.dir THEN (IF cal.dir[m] = 1 THEN 2 ELSE 1) ELSE 0

\* C20: at every step boundary of a calibration pass the persisted limits and
\* ratio tables equal the in-memory ones; while a later step is in progress
\* (and so after any interruption of it) the persisted limits table holds
\* every bound found in the completed steps and the persisted ratio table the
\* ratio of every motor both of whose bounds were found in them.
C20_CompletedStepsPersisted ==
    \A t \in Threads :
        LET file_limits == GetOr(calib_file, "motor_limits", EmptyTable)
            file_ratios == GetOr(calib_file, "joint_to_motor_ratios", EmptyTable)
        IN  /\ StepBoundary(t) =>
                  /\ file_limits = motor_limits
                  /\ file_limits = cal.limits
                  /\ file_ratios = joint_to_motor_ratios
            /\ (pc[t] \in {"cal_loop", "cal_sample", "cal_persist_limits"} /\ cal.step > 1) =>
                  \A m \in DOMAIN cal.limits :
                      /\ m \in DOMAIN file_limits
                      /\ \A slot \in {1, 2} \ {InFlight(m)} :
                            file_limits[m][slot] = cal.limits[m][slot]
                      /\ (InFlight(m) = 0 /\ ~AnyNone(cal.limits[m])) =>
                            /\ m \in DOMAIN file_ratios
                            /\ file_ratios[m] =
                                  Ratio(cal.limits[m],
                                        Get(config.joint_roms, motor_to_joint_map(m)))

\* C20 witness: the second step of a first calibration is being driven, and
\* a bound that the first step found is in the persisted table.
C20_Witness ==
    \E t \in Threads :
        /\ pc[t] = "cal_sample"
        /\ cal.step = 2
        /\ "calibrated" \notin DOMAIN calib_file
        /\ "motor_limits" \in DOMAIN calib_file
        /\ \E m \in DOMAIN calib_file.motor_limits : ~IsNone(calib_file.motor_limits[m][2])

\* A step of calib_sequence drives the joint of motor m in this direction.
Covered(m, direction) ==
    \E n \in DOMAIN config.calib_sequence :
        \E i \in DOMAIN config.calib_sequence[n] :
            /\ Get(config.joint_to_motor_map, config.calib_sequence[n][i][1]) = m
            /\ config.calib_sequence[n][i][2] = direction

\* The limits a pass over calib_sequence finds when every flexed motor is
\* sampled at StopHi and every extended one at StopLo.
PassLimits ==
    [m \in Range(config.motor_ids) |->
        <<IF Covered(m, "extend") THEN Some(StopLo) ELSE None,
          IF Covered(m, "flex") THEN Some(StopHi) ELSE None>>]

\* The calibration pass of t (calibrate or calibrate_manual as name says) has
\* ended, the transport answered every call, and the samples of its motors
\* were the end stops.
PassEnded(t, name) ==
    /\ Ended(t, name)
    /\ AllAnswered(t)
    /\ config.calib_sequence # <<>>
    /\ \A i \in DOMAIN mech : mech[i] = "stall"

\* What C21 states of a pass that has ended: it returned, the limits table is
\* the one the samples give, the motors with both limits have their ratio,
\* the flag says whether every limit is defined, and the file holds the same.
PassOutcome(t) ==
    /\ result[t].kind = "returned"
    /\ motor_limits = PassLimits
    /\ \A m \in DOMAIN PassLimits :
          ~AnyNone(PassLimits[m]) =>
              /\ m \in DOMAIN joint_to_motor_ratios
              /\ joint_to_motor_ratios[m] =
                    Ratio(PassLimits[m], Get(config.joint_roms, motor_to_joint_map(m)))
    /\ calibrated = AllLimitsDefined(config.motor_ids, PassLimits)
    /\ GetOr(calib_file, "motor_limits", EmptyTable) = motor_limits
    /\ GetOr(calib_file, "joint_to_motor_ratios", EmptyTable) = joint_to_motor_ratios
    /\ GetOr(calib_file, "calibrated", FALSE) = calibrated

\* C21: from the same configuration and prior calibration state and with the
\* same limit samples, calibrate and calibrate_manual end with the same
\* limits table, ratios and calibrated flag, in memory and persisted: the
\* ones the samples give, also for motors the sequence leaves out.
C21_ManualEqualsAutomatic ==
    \A t \in Threads :
        (PassEnded(t, "calibrate") \/ PassEnded(t, "calibrate_manual")) => PassOutcome(t)

\* Where a thread stands inside the driving loop of a calibration step; at
\* "cal_sample" it pauses for calib_step_period.
LoopPcs == {"cal_loop", "drive_read", "drive_write", "cal_sample"}

\* The lock is free or owned by a thread inside an operation, at most two
\* with blocks deep; no thread holds it after its operation has returned or
\* raised, nor through the pause of the driving loop.
LockHeldOnlyInside ==
    /\ motor_lock.count \in 0..2
    /\ motor_lock.count = 0 <=> motor_lock.owner = NoThread
    /\ \A t \in Threads :
          pc[t] \in {"idle", "cal_sample"} => motor_lock.owner # t

\* C22: the motor lock never causes a deadlock: nested operations of its
\* owner re-enter it, it is released on every path on which an operation
\* returns or raises and before every pause of the calibration loop, and a
\* thread that reads while a calibration pass is in its driving loop gets
\* the lock, unless the pass leaves the loop first: a pass that never leaves
\* it does not keep the reader out.
C22_LockNeverDeadlocks ==
    /\ []LockHeldOnlyInside
    /\ (pc["t1"] \in LoopPcs) ~> (motor_lock.owner = "t2" \/ pc["t1"] \notin LoopPcs)

\* C22 witness: the other thread holds the lock, two with blocks deep (in
\* disconnect, calling disable_torque), while the calibration pass pauses.
C22_Witness ==
    /\ pc["t1"] = "cal_sample"
    /\ motor_lock = [owner |-> "t2", count |-> 2]

\* The motors of the joints that the dict joint_pos names.
MotorsNamed(joint_pos) ==
    {Get(config.joint_to_motor_map, j) :
        j \in Keys(joint_pos) \cap Keys(config.joint_to_motor_map)}

\* C23: a per-motor value placed into a transport vector goes to that
\* motor's index in motor_ids: in the vector that joint-to-motor returns,
\* the element of a motor whose joint the argument does not name is still
\* the position read for that motor.
C23_ValuesAtMotorIndex ==
    \A t \in Threads :
        (op[t] = "round_trip" /\ pc[t] = "motor_to_joint_pos") =>
            \A i \in DOMAIN config.motor_ids :
                config.motor_ids[i] \notin MotorsNamed(arg[t]) =>
                    motor_pos[t][i] = present_position[i]

====
